---------------------------- MODULE Spec2Model ----------------------------
(***************************************************************************)
(* A model of rabbit-py: the routing topology declared by                  *)
(* setup_infrastructure, the publishers, the order workers, the fanout and *)
(* topic subscribers and the inventory RPC pair, together with the part of *)
(* the broker (queues, bindings, deliveries, ack / nack, dead-lettering)   *)
(* these programs rely on.                                                 *)
(*                                                                         *)
(* Strings that the code only compares (exchange and queue names) are      *)
(* TLA+ strings.  Strings that the code builds or takes apart (routing     *)
(* keys, enum values) are sequences of tokens in which "." is a token of   *)
(* its own: "order.created.express" is                                     *)
(* <<"order", ".", "created", ".", "express">>.                            *)
(***************************************************************************)
EXTENDS Integers, Sequences, FiniteSets, TLC

\* ------------------------------------------------------------------ bounds
\* Publishes one behaviour of the routing specification makes.
MaxPub == 2
\* Orders one behaviour of the order-flow specification publishes.
MaxOrders == 2
\* Handler runs of one behaviour in which a publish call raises or an
\* interrupt arrives.
MaxFaults == 1

\* ---------------------------------------------------------------- config.py
EXCHANGE_ORDERS == "orders.direct"
EXCHANGE_EVENTS == "events.fanout"
EXCHANGE_LOGS == "logs.topic"
EXCHANGE_DLX == "orders.dlx"
\* The broker's default exchange: exchange="" in basic_publish.
DEFAULT_EXCHANGE == ""

QUEUE_STANDARD_ORDERS == "orders.standard"
QUEUE_EXPRESS_ORDERS == "orders.express"
QUEUE_INTERNATIONAL_ORDERS == "orders.international"
QUEUE_NOTIFICATIONS == "notifications"
QUEUE_ANALYTICS == "analytics"
QUEUE_LOGS == "logs.all"
QUEUE_DLQ == "orders.failed"
QUEUE_INVENTORY_RPC == "rpc.inventory"

ROUTING_KEY_STANDARD == <<"order", ".", "standard">>
ROUTING_KEY_EXPRESS == <<"order", ".", "express">>
ROUTING_KEY_INTERNATIONAL == <<"order", ".", "international">>

PREFETCH_COUNT == 1

\* Python's None.
None == "None"
\* The empty string, as a token sequence.
EmptyStr == <<>>

\* ---------------------------------------------------------------- models.py
\* OrderType: the enum's members, and the string each carries.
OrderTypes == {"STANDARD", "EXPRESS", "INTERNATIONAL"}

OrderTypeValue(t) ==
    CASE t = "STANDARD" -> <<"standard">>
      [] t = "EXPRESS" -> <<"express">>
      [] t = "INTERNATIONAL" -> <<"international">>

OrderTypeValues == {OrderTypeValue(t) : t \in OrderTypes}

\* OrderType(value): the member carrying the value (ValueError when none does).
OrderTypeOf(v) == CHOOSE t \in OrderTypes : OrderTypeValue(t) = v
\* EventType: the enum's members.
EventTypes == {"ORDER_CREATED", "ORDER_PROCESSING", "ORDER_COMPLETED", "ORDER_FAILED"}

\* EventType.value: the string each member carries.
EventTypeValue(e) ==
    CASE e = "ORDER_CREATED" -> <<"order", ".", "created">>
      [] e = "ORDER_PROCESSING" -> <<"order", ".", "processing">>
      [] e = "ORDER_COMPLETED" -> <<"order", ".", "completed">>
      [] e = "ORDER_FAILED" -> <<"order", ".", "failed">>

\* ------------------------------------------------------------------ strings
\* str.split("."): the segments between the dots; "" splits to [""].
RECURSIVE SplitFrom(_, _)
SplitFrom(s, cur) ==
    IF s = <<>> THEN <<cur>>
    ELSE IF Head(s) = "." THEN <<cur>> \o SplitFrom(Tail(s), <<>>)
    ELSE SplitFrom(Tail(s), Append(cur, Head(s)))

Split(s) == SplitFrom(s, <<>>)

\* ------------------------------------------------------ setup_infrastructure
NoArg == "-"

ExchangeDeclare(name, type) ==
    [op |-> "exchange_declare", name |-> name, type |-> type, durable |-> TRUE,
     dlx |-> NoArg, exchange |-> NoArg, key |-> <<>>]

QueueDeclare(name, durable, dlx) ==
    [op |-> "queue_declare", name |-> name, type |-> NoArg, durable |-> durable,
     dlx |-> dlx, exchange |-> NoArg, key |-> <<>>]

\* pika's queue_bind binds with the queue's name when no routing_key is given.
QueueBind(name, exchange, key) ==
    [op |-> "queue_bind", name |-> name, type |-> NoArg, durable |-> FALSE,
     dlx |-> NoArg, exchange |-> exchange, key |-> key]

\* The binding pattern of the log queue: routing_key="order.#".
LogBindingPatternStar == <<"order", ".", "*">>

LogBindingPattern == <<"order", ".", "#">>

OrderBindings ==
    << QueueBind(QUEUE_STANDARD_ORDERS, EXCHANGE_ORDERS, ROUTING_KEY_STANDARD),
       QueueBind(QUEUE_EXPRESS_ORDERS, EXCHANGE_ORDERS, ROUTING_KEY_EXPRESS),
       QueueBind(QUEUE_INTERNATIONAL_ORDERS, EXCHANGE_ORDERS, ROUTING_KEY_INTERNATIONAL) >>

\* Only the notification queue is bound to the fanout exchange.
EventBindingsOne ==
    << QueueBind(QUEUE_NOTIFICATIONS, EXCHANGE_EVENTS, <<QUEUE_NOTIFICATIONS>>) >>

EventBindings ==
    << QueueBind(QUEUE_NOTIFICATIONS, EXCHANGE_EVENTS, <<QUEUE_NOTIFICATIONS>>),
       QueueBind(QUEUE_ANALYTICS, EXCHANGE_EVENTS, <<QUEUE_ANALYTICS>>) >>

\* The order queues declared without the dead-letter argument.
OrderQueueArgsNone == NoArg

\* dlx_args: the x-dead-letter-exchange of the three order queues.
OrderQueueArgs == EXCHANGE_DLX

\* An order queue declared before the dead-letter exchange its arguments name.
SetupStepsDlxLast ==
    << ExchangeDeclare(EXCHANGE_ORDERS, "direct"),
       QueueDeclare(QUEUE_STANDARD_ORDERS, TRUE, OrderQueueArgs),
       ExchangeDeclare(EXCHANGE_DLX, "fanout"),
       QueueDeclare(QUEUE_DLQ, TRUE, NoArg),
       QueueBind(QUEUE_DLQ, EXCHANGE_DLX, <<QUEUE_DLQ>>) >>
    \o OrderBindings

\* The order queues bound before anything is declared.
SetupStepsBindFirst ==
    OrderBindings
    \o << ExchangeDeclare(EXCHANGE_ORDERS, "direct"),
          QueueDeclare(QUEUE_STANDARD_ORDERS, TRUE, OrderQueueArgs),
          QueueDeclare(QUEUE_EXPRESS_ORDERS, TRUE, OrderQueueArgs),
          QueueDeclare(QUEUE_INTERNATIONAL_ORDERS, TRUE, OrderQueueArgs) >>

\* The RPC queue declared with queue="", as the RPC client declares its
\* reply queue.
SetupStepsServerNamed ==
    << ExchangeDeclare(EXCHANGE_DLX, "fanout"),
       QueueDeclare(QUEUE_DLQ, TRUE, NoArg),
       QueueBind(QUEUE_DLQ, EXCHANGE_DLX, <<QUEUE_DLQ>>),
       QueueDeclare("", FALSE, NoArg) >>

\* The calls setup_infrastructure makes, in the order it makes them.
SetupSteps ==
    << ExchangeDeclare(EXCHANGE_DLX, "fanout"),
       QueueDeclare(QUEUE_DLQ, TRUE, NoArg),
       QueueBind(QUEUE_DLQ, EXCHANGE_DLX, <<QUEUE_DLQ>>),
       ExchangeDeclare(EXCHANGE_ORDERS, "direct"),
       QueueDeclare(QUEUE_STANDARD_ORDERS, TRUE, OrderQueueArgs),
       QueueDeclare(QUEUE_EXPRESS_ORDERS, TRUE, OrderQueueArgs),
       QueueDeclare(QUEUE_INTERNATIONAL_ORDERS, TRUE, OrderQueueArgs) >>
    \o OrderBindings
    \o << ExchangeDeclare(EXCHANGE_EVENTS, "fanout"),
          QueueDeclare(QUEUE_NOTIFICATIONS, TRUE, NoArg),
          QueueDeclare(QUEUE_ANALYTICS, TRUE, NoArg) >>
    \o EventBindings
    \o << ExchangeDeclare(EXCHANGE_LOGS, "topic"),
          QueueDeclare(QUEUE_LOGS, TRUE, NoArg),
          QueueBind(QUEUE_LOGS, EXCHANGE_LOGS, LogBindingPattern),
          QueueDeclare(QUEUE_INVENTORY_RPC, FALSE, NoArg) >>

\* The broker before any declaration.
EmptyTopology == [exchanges |-> {}, queues |-> {}, bindings |-> {}]

\* The names the broker gives to queues declared with queue="".
GeneratedNames == <<"amq.gen-1", "amq.gen-2", "amq.gen-3", "amq.gen-4", "amq.gen-5", "amq.gen-6">>

FreshName(t) ==
    LET free == {n \in 1..Len(GeneratedNames) :
                    \A q \in t.queues : q.name # GeneratedNames[n]}
    IN IF free = {} THEN GeneratedNames[Len(GeneratedNames)]
       ELSE GeneratedNames[CHOOSE n \in free : \A m \in free : n <= m]

\* The broker's answer to one declaration: the topology it leaves and the
\* channel error it raises, if any.  Declaring what exists with the same
\* attributes changes nothing; with other attributes it is refused (406);
\* binding a queue or an exchange that does not exist is refused (404); a
\* queue declared without a name gets a fresh one.
Declare(t, d) ==
    CASE d.op = "exchange_declare" ->
           LET x == [name |-> d.name, type |-> d.type, durable |-> d.durable]
           IN IF \E e \in t.exchanges : e.name = d.name /\ e # x
              THEN [t |-> t, err |-> "PRECONDITION_FAILED"]
              ELSE [t |-> [t EXCEPT !.exchanges = @ \cup {x}], err |-> None]
      [] d.op = "queue_declare" ->
           LET q == [name |-> IF d.name = "" THEN FreshName(t) ELSE d.name,
                     durable |-> d.durable, dlx |-> d.dlx]
           IN IF \E e \in t.queues : e.name = q.name /\ e # q
              THEN [t |-> t, err |-> "PRECONDITION_FAILED"]
              ELSE [t |-> [t EXCEPT !.queues = @ \cup {q}], err |-> None]
      [] d.op = "queue_bind" ->
           IF \/ ~\E e \in t.queues : e.name = d.name
              \/ ~\E e \in t.exchanges : e.name = d.exchange
           THEN [t |-> t, err |-> "NOT_FOUND"]
           ELSE [t |-> [t EXCEPT !.bindings = @ \cup
                           {[queue |-> d.name, exchange |-> d.exchange, key |-> d.key]}],
                 err |-> None]

\* One declaration applied to the broker's topology (declarations are sets:
\* the same declaration twice changes nothing).
ApplyDecl(t, d) ==
    CASE d.op = "exchange_declare" ->
           [t EXCEPT !.exchanges = @ \cup {[name |-> d.name, type |-> d.type, durable |-> d.durable]}]
      [] d.op = "queue_declare" ->
           [t EXCEPT !.queues = @ \cup {[name |-> d.name, durable |-> d.durable, dlx |-> d.dlx]}]
      [] d.op = "queue_bind" ->
           [t EXCEPT !.bindings = @ \cup {[queue |-> d.name, exchange |-> d.exchange, key |-> d.key]}]

RECURSIVE ApplyAll(_, _)
ApplyAll(t, steps) ==
    IF steps = <<>> THEN t ELSE ApplyAll(ApplyDecl(t, Head(steps)), Tail(steps))

\* The topology setup_infrastructure leaves on a fresh broker.
Topology == ApplyAll(EmptyTopology, SetupSteps)

\* The queues the model keeps contents for: the declared ones and the
\* exclusive reply queues of the RPC clients.
Clients == {"c1"}
\* Two InventoryRPCClient objects, each with its own connection.
ConcurrentClients == {"c1", "c2"}
ReplyQueue(c) == IF c = "c1" THEN "amq.gen-c1" ELSE "amq.gen-c2"
ReplyQueues == {ReplyQueue(c) : c \in ConcurrentClients}
DeclaredQueues == {q.name : q \in Topology.queues}
QueueNames == DeclaredQueues \cup ReplyQueues

ExchangeType(x) == (CHOOSE e \in Topology.exchanges : e.name = x).type
ExchangeExists(x) == \E e \in Topology.exchanges : e.name = x
DeadLetterExchange(q) ==
    IF \E d \in Topology.queues : d.name = q
    THEN (CHOOSE d \in Topology.queues : d.name = q).dlx
    ELSE NoArg

\* ------------------------------------------------------------------ broker
\* Topic matching on words: * is exactly one word, # is zero or more.
RECURSIVE TopicMatch(_, _)
TopicMatch(pat, key) ==
    IF pat = <<>> THEN key = <<>>
    ELSE IF Head(pat) = <<"#">>
         THEN TopicMatch(Tail(pat), key)
              \/ (key # <<>> /\ TopicMatch(pat, Tail(key)))
    ELSE IF key = <<>> THEN FALSE
    ELSE IF Head(pat) = <<"*">> THEN TopicMatch(Tail(pat), Tail(key))
    ELSE Head(pat) = Head(key) /\ TopicMatch(Tail(pat), Tail(key))

\* Whether a binding of an exchange of the given type takes a routing key.
BindingMatches(type, pattern, key) ==
    CASE type = "direct" -> pattern = key
      [] type = "fanout" -> TRUE
      [] type = "topic" -> TopicMatch(Split(pattern), Split(key))

\* The queues a message published to an exchange with a routing key goes to.
\* The default exchange routes to the queue named by the routing key.
Route(exchange, key) ==
    IF exchange = DEFAULT_EXCHANGE
    THEN {q \in QueueNames : key = <<q>>}
    ELSE IF ~ExchangeExists(exchange) THEN {}
    ELSE {b.queue : b \in {c \in Topology.bindings :
                             /\ c.exchange = exchange
                             /\ BindingMatches(ExchangeType(exchange), c.key, key)}}

\* ---------------------------------------------------------------- payloads
\* A JSON text is the record of its fields; a text that is no JSON has the
\* single field invalid_json.
InvalidJson == [invalid_json |-> TRUE]
IsJson(body) == "invalid_json" \notin DOMAIN body

\* The processing time the order worker measures, a float.
ProcessingTime == "t"

\* metadata=None.
NoMetadata == [null |-> TRUE]

\* Order(order_id, customer_id, product_id, quantity, order_type).
Order(order_id, order_type) ==
    [order_id |-> order_id, customer_id |-> "CUST", product_id |-> "PROD",
     quantity |-> 1, order_type |-> order_type]

OrderFields == {"order_id", "customer_id", "product_id", "quantity", "order_type"}

\* to_json writing the member's name in place of its value.
OrderToJsonName(o) == [o EXCEPT !.order_type = <<o.order_type>>]

\* Order.to_json: asdict, the order type replaced by its value, json.dumps.
OrderToJson(o) == [o EXCEPT !.order_type = OrderTypeValue(o.order_type)]

\* Whether Order.from_json raises: json.loads on a text that is no JSON,
\* data["order_type"] on a missing field, OrderType(...) on an unknown value,
\* cls(**data) on missing or unexpected fields.
OrderFromJsonRaises(body) ==
    \/ ~IsJson(body)
    \/ "order_type" \notin DOMAIN body
    \/ body.order_type \notin OrderTypeValues
    \/ DOMAIN body # OrderFields

OrderFromJson(body) == [body EXCEPT !.order_type = OrderTypeOf(body.order_type)]

\* OrderEvent(event_type, order_id, message, metadata).
OrderEvent(event_type, order_id, message, metadata) ==
    [event_type |-> event_type, order_id |-> order_id, message |-> message,
     metadata |-> metadata]

\* OrderEvent.to_json.
EventToJson(e) == [e EXCEPT !.event_type = EventTypeValue(e.event_type)]

\* pika.BasicProperties as the code sets them.
Properties(delivery_mode, content_type, correlation_id, reply_to) ==
    [delivery_mode |-> delivery_mode, content_type |-> content_type,
     correlation_id |-> correlation_id, reply_to |-> reply_to]

PersistentJson == Properties("persistent", "application/json", None, None)
PlainProperties == Properties("transient", None, None, None)

\* ------------------------------------------------------------------- state
VARIABLES
    queue,      \* queue name -> the messages ready on it, oldest first
    unacked,    \* consumer -> its deliveries not yet acked or nacked, oldest first
    running,    \* consumer -> whether its consume loop is running
    nextId,     \* the identity the next published message gets
    nextTag,    \* the next delivery tag
    nPub,       \* publishes made by the producers so far
    nFaults,    \* handler runs in which a publish call has raised or an interrupt arrived
    pubLog,     \* history: every basic_publish, in order
    dlog,       \* history: every delivery, indexed by delivery tag
    client,     \* RPC client -> the fields of its InventoryRPCClient and its calls
    topology,   \* the exchanges, queues and bindings the broker holds
    setup,      \* bootstrapping process -> where its setup_infrastructure stands
    payload,    \* an object of models.py on its way through to_json and from_json
    producer    \* the producer process: whether it runs, and its publish calls

vars == <<queue, unacked, running, nextId, nextTag, nPub, nFaults, pubLog, dlog, client,
          topology, setup, payload, producer>>

Workers == {"w1", "w2"}
Subscribers == {"notification", "analytics", "logs"}
Servers == {"srv"}
Consumers == Workers \cup Subscribers \cup Servers

\* The broker's part of the state, threaded through the handlers.
Broker == [queue |-> queue, nextId |-> nextId, pubLog |-> pubLog]

\* basic_publish: the message is appended to every queue the exchange routes
\* it to; a message that no binding takes is dropped.
BasicPublish(b, exchange, key, body, props) ==
    LET m == [id |-> b.nextId, key |-> key, body |-> body, props |-> props]
        dest == Route(exchange, key)
    IN [queue |-> [q \in QueueNames |->
                     IF q \in dest THEN Append(b.queue[q], m) ELSE b.queue[q]],
        nextId |-> b.nextId + 1,
        pubLog |-> Append(b.pubLog, [id |-> b.nextId, by |-> "basic_publish",
                                     exchange |-> exchange, key |-> key, body |-> body,
                                     props |-> props])]

\* History only: the function that made the last basic_publish.
By(name, b) == [b EXCEPT !.pubLog[Len(b.pubLog)].by = name]

\* ------------------------------------------------------------- producers
\* _get_routing_key with the express key for the standard orders.
get_routing_key_wrong(order_type) ==
    CASE order_type = "STANDARD" -> ROUTING_KEY_EXPRESS
      [] order_type = "EXPRESS" -> ROUTING_KEY_EXPRESS
      [] order_type = "INTERNATIONAL" -> ROUTING_KEY_INTERNATIONAL

\* _get_routing_key.
get_routing_key(order_type) ==
    CASE order_type = "STANDARD" -> ROUTING_KEY_STANDARD
      [] order_type = "EXPRESS" -> ROUTING_KEY_EXPRESS
      [] order_type = "INTERNATIONAL" -> ROUTING_KEY_INTERNATIONAL

\* publish_order without delivery_mode=2.
publish_order_transient(b, order) ==
    By("publish_order",
       BasicPublish(b, EXCHANGE_ORDERS, get_routing_key(order.order_type),
                    OrderToJson(order), PlainProperties))

\* publish_order: persistent, content type application/json.
publish_order(b, order) ==
    By("publish_order",
       BasicPublish(b, EXCHANGE_ORDERS, get_routing_key(order.order_type),
                    OrderToJson(order), PersistentJson))

publish_event(b, event) ==
    By("publish_event",
       BasicPublish(b, EXCHANGE_EVENTS, EmptyStr, EventToJson(event), PersistentJson))

\* publish_log's key: f"{event.event_type.value}.{order_type_str}".
LogRoutingKey(event, order_type_str) ==
    EventTypeValue(event.event_type) \o <<".">> \o order_type_str

publish_log(b, event, order_type_str) ==
    By("publish_log",
       BasicPublish(b, EXCHANGE_LOGS, LogRoutingKey(event, order_type_str),
                    EventToJson(event), PersistentJson))

\* get_queue_for_order_type.
get_queue_for_order_type(order_type) ==
    CASE order_type = "STANDARD" -> QUEUE_STANDARD_ORDERS
      [] order_type = "EXPRESS" -> QUEUE_EXPRESS_ORDERS
      [] order_type = "INTERNATIONAL" -> QUEUE_INTERNATIONAL_ORDERS

\* self.response = None.
NoResponse == [null |-> TRUE]

\* InventoryRPCClient.__init__: no response, no correlation id; the other
\* fields are history: whether a call is in progress (pc), the calls begun,
\* the correlation id the stored response arrived with (from), the results
\* returned and the responses passed over.
NewClient ==
    [pc |-> "idle", correlation_id |-> None, response |-> NoResponse, from |-> None,
     calls |-> 0, returned |-> <<>>, ignored |-> <<>>]

\* No object is being serialized.
Nothing == [null |-> TRUE]
NoPayload == [stage |-> "none", object |-> Nothing, json |-> Nothing, decoded |-> Nothing]

\* The producer process before its first publish: running, no call made
\* (history: every call of a publish function, with how it ended).
NewProducer == [pc |-> "running", calls |-> <<>>]

\* The processes that run demo_setup.
SetupProcesses == {"p1", "p2"}

\* A bootstrapping process: the call of setup_infrastructure it is to make
\* next (0 outside a run), the runs it has started, the error that ended its
\* run, the topology each of its completed runs left, and whether a step of
\* the other process fell between two of its own.
SetupIdle == [at |-> 0, started |-> 0, err |-> None, left |-> <<>>, overlapped |-> FALSE]

\* demo_setup has run once.
SetupDone == [SetupIdle EXCEPT !.started = 1, !.left = <<Topology>>]

\* The state every specification starts from: the declared topology, every
\* queue empty, no consumer started, the RPC client constructed.
InitBroker ==
    /\ payload = NoPayload
    /\ producer = NewProducer
    /\ topology = Topology
    /\ setup = [p \in SetupProcesses |-> SetupDone]
    /\ client = [c \in ConcurrentClients |-> NewClient]
    /\ queue = [q \in QueueNames |-> <<>>]
    /\ unacked = [c \in Consumers |-> <<>>]
    /\ nextId = 1
    /\ nextTag = 1
    /\ nPub = 0
    /\ nFaults = 0
    /\ pubLog = <<>>
    /\ dlog = <<>>

SetBroker(b) ==
    /\ queue' = b.queue
    /\ nextId' = b.nextId
    /\ pubLog' = b.pubLog

\* ------------------------------------------------- routing specification
\* The producers alone, so that every published message stays where the
\* broker put it.
OrderIds == {"ORD-001", "ORD-002"}

\* The event demo_producer builds for an order.
CreatedEvent(order) ==
    OrderEvent("ORDER_CREATED", order.order_id, <<"Order created for customer", order.customer_id>>,
               [product_id |-> order.product_id, quantity |-> order.quantity])

\* Routing keys a producer outside this repository may use.
ForeignKeys ==
    { EmptyStr, <<"order">>, <<"order", ".">>, <<"orders", ".", "created">>,
      <<"user", ".", "order">>, <<"order", ".", "standard", ".", "x">>,
      <<"order", ".", "stand">>, <<"standard">>, <<"order", ".", "created">> }

\* One publish of the routing specification.
Produce(b) ==
    /\ nPub < MaxPub
    /\ nPub' = nPub + 1
    /\ SetBroker(b)
    /\ UNCHANGED <<topology, setup, payload, producer, unacked, running, nextTag, nFaults, dlog, client>>

RoutePublishOrder ==
    \E t \in OrderTypes, i \in OrderIds :
        Produce(publish_order(Broker, Order(i, t)))

RoutePublishEvent ==
    \E e \in EventTypes :
        Produce(publish_event(Broker, OrderEvent(e, "ORD-001", <<"m">>, NoMetadata)))

RoutePublishLog ==
    \E e \in EventTypes, t \in OrderTypes :
        Produce(publish_log(Broker, OrderEvent(e, "ORD-001", <<"m">>, NoMetadata),
                            OrderTypeValue(t)))

\* basic_publish by a producer outside this repository.
RouteForeignPublish ==
    \E x \in {EXCHANGE_ORDERS, EXCHANGE_EVENTS, EXCHANGE_LOGS}, k \in ForeignKeys :
        Produce(BasicPublish(Broker, x, k, InvalidJson, PlainProperties))

InitRoute == InitBroker /\ running = [c \in Consumers |-> FALSE]

NextRoute ==
    \/ RoutePublishOrder
    \/ RoutePublishEvent
    \/ RoutePublishLog
    \/ RouteForeignPublish

SpecRoute == InitRoute /\ [][NextRoute]_vars

\* How many copies of the message with identity i a queue holds.
Copies(q, i) == Cardinality({n \in 1..Len(queue[q]) : queue[q][n].id = i})

Published == {pubLog[n] : n \in 1..Len(pubLog)}

OrderQueues == {QUEUE_STANDARD_ORDERS, QUEUE_EXPRESS_ORDERS, QUEUE_INTERNATIONAL_ORDERS}

\* C5: an order of type t published by publish_order is on exactly one queue,
\* get_queue_for_order_type(t), and on no other; and whatever is published
\* to the direct exchange, an order queue holds a copy iff the key it is
\* bound with equals the routing key exactly.
C5_DirectRouting ==
    /\ \A p \in Published : p.by = "publish_order" =>
          \A q \in QueueNames :
              Copies(q, p.id) =
                  IF q = get_queue_for_order_type(OrderFromJson(p.body).order_type)
                  THEN 1 ELSE 0
    /\ \A p \in Published : p.exchange = EXCHANGE_ORDERS =>
          \A q \in OrderQueues :
              (Copies(q, p.id) > 0) <=>
                  (\E bd \in Topology.bindings :
                       bd.queue = q /\ bd.exchange = EXCHANGE_ORDERS /\ bd.key = p.key)

\* An express order has been published, and so has a message whose key only
\* starts like a bound key.
C5_Witness ==
    /\ \E p \in Published :
          /\ p.by = "publish_order"
          /\ p.body.order_type = <<"express">>
          /\ Copies(QUEUE_EXPRESS_ORDERS, p.id) = 1
    /\ \E p \in Published :
          p.exchange = EXCHANGE_ORDERS /\ p.key = <<"order", ".", "standard", ".", "x">>

\* C6: every event publish_event publishes, and every message published to
\* the fanout exchange under any routing key, is once on the notification
\* queue, once on the analytics queue and on no other queue.
C6_FanoutCopies ==
    \A p \in Published : (p.by = "publish_event" \/ p.exchange = EXCHANGE_EVENTS) =>
        \A q \in QueueNames :
            Copies(q, p.id) = IF q \in {QUEUE_NOTIFICATIONS, QUEUE_ANALYTICS} THEN 1 ELSE 0

\* publish_event has published, and a foreign producer has published to the
\* fanout exchange under a key that is not empty.
C6_Witness ==
    /\ \E p \in Published : p.by = "publish_event" /\ Copies(QUEUE_ANALYTICS, p.id) = 1
    /\ \E p \in Published :
          p.exchange = EXCHANGE_EVENTS /\ p.key # EmptyStr /\ Copies(QUEUE_ANALYTICS, p.id) = 1

\* C8: the log queue holds a message published to the topic exchange iff the
\* first segment of its routing key is "order"; every key publish_log builds
\* is taken.
C8_TopicRouting ==
    /\ \A p \in Published : p.exchange = EXCHANGE_LOGS =>
          Copies(QUEUE_LOGS, p.id) = IF Head(Split(p.key)) = <<"order">> THEN 1 ELSE 0
    /\ \A p \in Published : p.by = "publish_log" => Copies(QUEUE_LOGS, p.id) = 1

\* The one-segment key "order" is on the log queue, a key built by
\* publish_log is, and a key with another first segment is not.
C8_Witness ==
    /\ \E p \in Published :
          p.exchange = EXCHANGE_LOGS /\ p.key = <<"order">> /\ Copies(QUEUE_LOGS, p.id) = 1
    /\ \E p \in Published :
          /\ p.by = "publish_log"
          /\ p.key = <<"order", ".", "completed", ".", "express">>
    /\ nPub = MaxPub

\* --------------------------------------------------------------- consumers
\* No exception is being raised.
NoExc == "none"

\* Both fanout subscribers consuming from the notification queue.
SubscriberQueueShared(s) == QUEUE_NOTIFICATIONS

\* The queue start_notification_service and start_analytics_service pass to
\* basic_consume.
SubscriberQueue(s) == IF s = "notification" THEN QUEUE_NOTIFICATIONS ELSE QUEUE_ANALYTICS

\* The queue each consumer passes to basic_consume.  The two workers compete
\* on the standard queue; nobody serves the other order queues.
ConsumerQueue(c) ==
    CASE c \in {"w1", "w2"} -> get_queue_for_order_type("STANDARD")
      [] c \in {"notification", "analytics"} -> SubscriberQueue(c)
      [] c = "logs" -> QUEUE_LOGS
      [] c = "srv" -> QUEUE_INVENTORY_RPC

\* basic_qos with a prefetch count one above the configured one.
WorkerPrefetchNoQos == PREFETCH_COUNT + 1

\* channel.basic_qos(prefetch_count=config.PREFETCH_COUNT) in start_worker.
WorkerPrefetch == PREFETCH_COUNT

\* The prefetch count of a consumer's channel; 0, the broker's default when
\* basic_qos is never called, is no limit.
Prefetch(c) == IF c \in Workers THEN WorkerPrefetch ELSE 0

\* start_worker's should_fail argument.
should_fail(w) == w = "w1"

\* The broker hands the oldest ready message of the consumer's queue to the
\* consumer, as long as the channel's prefetch count allows one more
\* unresolved delivery.
Deliver(c) ==
    LET q == ConsumerQueue(c) IN
    /\ running[c]
    /\ queue[q] # <<>>
    /\ Prefetch(c) = 0 \/ Len(unacked[c]) < Prefetch(c)
    /\ queue' = [queue EXCEPT ![q] = Tail(@)]
    /\ unacked' = [unacked EXCEPT ![c] =
                      Append(@, [tag |-> nextTag, queue |-> q, msg |-> Head(queue[q])])]
    /\ dlog' = Append(dlog, [tag |-> nextTag, consumer |-> c, queue |-> q,
                             id |-> Head(queue[q]).id, ops |-> <<>>, done |-> FALSE,
                             exc |-> NoExc, pubs |-> <<>>])
    /\ nextTag' = nextTag + 1
    /\ UNCHANGED <<topology, setup, payload, producer, running, nextId, nPub, nFaults, pubLog, client>>

\* ---------------------------------------------------------------- handlers
\* A handler runs on the record h: the broker (b), the unresolved deliveries
\* of its channel (un), the calls it has made (ops) and the exception being
\* raised (exc).  Once an exception is raised the statements that follow in
\* the same block are skipped.
\* The classes the code raises that derive from Exception.
Exceptions == {"JSONDecodeError", "KeyError", "ValueError", "TypeError",
               "AttributeError", "Exception", "AMQPError"}

Handler(c) == [b |-> Broker, un |-> unacked[c], ops |-> <<>>, exc |-> NoExc]

Did(h, op, arg) == [h EXCEPT !.ops = Append(@, [op |-> op, arg |-> arg])]

Raise(h, e, op) ==
    IF h.exc # NoExc THEN h
    ELSE [Did(h, op, "raised") EXCEPT !.exc = e]

WithoutTag(un, tag) == SelectSeq(un, LAMBDA d : d.tag # tag)

\* Dead-lettering: a rejected message of a queue that names a dead-letter
\* exchange is routed through that exchange under its own routing key;
\* without one it is discarded.
DeadLetter(qs, d) ==
    LET x == DeadLetterExchange(d.queue) IN
    IF x = NoArg THEN qs
    ELSE [q \in QueueNames |->
            IF q \in Route(x, d.msg.key) THEN Append(qs[q], d.msg) ELSE qs[q]]

\* ch.basic_ack(delivery_tag=method.delivery_tag)
basic_ack(h, d) ==
    IF h.exc # NoExc THEN h
    ELSE [Did(h, "basic_ack", "") EXCEPT !.un = WithoutTag(h.un, d.tag)]

\* basic_nack with requeue=True: the broker puts the message back at the
\* head of its queue.
basic_nack_requeue(h, d) ==
    IF h.exc # NoExc THEN h
    ELSE [Did(h, "basic_nack", "requeue=True") EXCEPT
            !.un = WithoutTag(h.un, d.tag),
            !.b.queue = [h.b.queue EXCEPT ![d.queue] = <<d.msg>> \o @]]

\* ch.basic_nack(delivery_tag=method.delivery_tag, requeue=False)
basic_nack(h, d) ==
    IF h.exc # NoExc THEN h
    ELSE [Did(h, "basic_nack", "requeue=False") EXCEPT
            !.un = WithoutTag(h.un, d.tag),
            !.b.queue = DeadLetter(h.b.queue, d)]

\* publish_event(ch, event), which may raise.
CallPublishEvent(h, event, raises) ==
    IF h.exc # NoExc THEN h
    ELSE IF raises THEN Raise(h, "AMQPError", "publish_event")
    ELSE [Did(h, "publish_event", event.event_type) EXCEPT !.b = publish_event(h.b, event)]

\* publish_log(ch, event, order.order_type.value), which may raise.
CallPublishLog(h, event, order_type_str, raises) ==
    IF h.exc # NoExc THEN h
    ELSE IF raises THEN Raise(h, "AMQPError", "publish_log")
    ELSE [Did(h, "publish_log", event.event_type) EXCEPT
            !.b = publish_log(h.b, event, order_type_str)]

\* Order.from_json(body.decode()), which may raise.
CallOrderFromJson(h, body) ==
    IF h.exc # NoExc THEN h
    ELSE IF ~IsJson(body) THEN Raise(h, "JSONDecodeError", "from_json")
    ELSE IF "order_type" \notin DOMAIN body THEN Raise(h, "KeyError", "from_json")
    ELSE IF body.order_type \notin OrderTypeValues THEN Raise(h, "ValueError", "from_json")
    ELSE IF DOMAIN body # OrderFields THEN Raise(h, "TypeError", "from_json")
    ELSE Did(h, "from_json", "")

\* What a run of the order worker's callback may meet: the first of the
\* calls of its try block to raise (a publish, or the simulated failure being
\* drawn), and the first of the publishes of its except block to raise.
\* Only the draws that the run reads are told apart: a body that does not
\* parse reaches no publish, the failure is drawn only with should_fail, and
\* the except block runs only after a raise.
CallbackInputs(w, d) ==
    {in \in [try : {"none", "processing_event", "processing_log", "simulated_failure",
                    "completed_event", "completed_log"},
             except : {"none", "failed_event", "failed_log"}] :
        /\ OrderFromJsonRaises(d.msg.body) => in.try = "none"
        /\ in.try = "none" => in.except = "none"
        /\ in.try = "simulated_failure" => should_fail(w)
        /\ nFaults >= MaxFaults =>
              in.try \in {"none", "simulated_failure"} /\ in.except = "none"}

\* The try block of the order worker's callback.  time.sleep is where an
\* interrupt of the process (CTRL+C) raises KeyboardInterrupt in it.
WorkerTry(h, w, d, in) ==
    LET body == d.msg.body
        h1 == CallOrderFromJson(h, body)
        order == OrderFromJson(body)
        processing == OrderEvent("ORDER_PROCESSING", order.order_id,
                                 <<"Processing by worker", w>>, [worker_id |-> w])
        completed == OrderEvent("ORDER_COMPLETED", order.order_id,
                                <<"Completed by worker", w>>,
                                [worker_id |-> w, processing_time |-> ProcessingTime])
    IN IF h1.exc # NoExc THEN h1
       ELSE LET h2 == CallPublishEvent(h1, processing, in.try = "processing_event")
                h3 == CallPublishLog(h2, processing, OrderTypeValue(order.order_type),
                                     in.try = "processing_log")
                slept == IF in.try = "interrupt"
                         THEN Raise(h3, "KeyboardInterrupt", "interrupt")
                         ELSE h3
                h4 == IF should_fail(w) /\ in.try = "simulated_failure"
                      THEN Raise(slept, "Exception", "process")
                      ELSE IF slept.exc # NoExc THEN slept ELSE Did(slept, "process", "")
                h5 == CallPublishEvent(h4, completed, in.try = "completed_event")
                h6 == CallPublishLog(h5, completed, OrderTypeValue(order.order_type),
                                     in.try = "completed_log")
            IN basic_ack(h6, d)

\* The except block without the negative acknowledgment.
WorkerExceptNoNack(h, w, d, in) == [h EXCEPT !.exc = NoExc]

\* The inner try statement without its except clause.
PassOverNothing(h) == h

\* except Exception: pass, around the publishes of the failure event.
PassOver(h) == IF h.exc \in Exceptions THEN [h EXCEPT !.exc = NoExc] ELSE h

\* The except block of the order worker's callback: the failure event, whose
\* own exceptions are passed over, then the negative acknowledgment.
WorkerExcept(h, w, d, in) ==
    LET body == d.msg.body
        caught == [h EXCEPT !.exc = NoExc]
        h1 == CallOrderFromJson(caught, body)
        order == OrderFromJson(body)
        failed == OrderEvent("ORDER_FAILED", order.order_id, <<"Failed", h.exc>>,
                             [worker_id |-> w])
        h3 == IF h1.exc # NoExc THEN h1
              ELSE CallPublishLog(CallPublishEvent(h1, failed, in.except = "failed_event"),
                                  failed, OrderTypeValue(order.order_type), in.except = "failed_log")
    IN basic_nack(PassOver(h3), d)

\* The callback without its try statement.
OrderCallbackNoTry(h, w, d, in) == WorkerTry(h, w, d, in)

\* start_worker's callback: try ... except Exception.
OrderCallback(h, w, d, in) ==
    LET t == WorkerTry(h, w, d, in)
    IN IF t.exc \in Exceptions THEN WorkerExcept(t, w, d, in) ELSE t

\* 1 when a publish call raised or an interrupt arrived in the handler's run,
\* else 0.
Faults(h) ==
    IF \E n \in 1..Len(h.ops) :
           h.ops[n].arg = "raised" /\ h.ops[n].op \in {"publish_event", "publish_log", "interrupt"}
    THEN 1 ELSE 0

\* What the consume loop does with the handler's result.  An exception that
\* leaves the handler ends start_consuming; the caller's finally closes the
\* connection, and the broker puts the channel's unresolved deliveries back
\* at the head of their queue.
Handled(c, d, h) ==
    /\ nFaults + Faults(h) <= MaxFaults
    /\ nFaults' = nFaults + Faults(h)
    /\ nextId' = h.b.nextId
    /\ pubLog' = h.b.pubLog
    /\ dlog' = [dlog EXCEPT ![d.tag].ops = h.ops, ![d.tag].done = TRUE,
                            ![d.tag].exc = h.exc,
                            ![d.tag].pubs = SubSeq(h.b.pubLog, Len(pubLog) + 1, Len(h.b.pubLog))]
    /\ running' = [running EXCEPT ![c] = (h.exc = NoExc)]
    /\ IF h.exc = NoExc
       THEN /\ queue' = h.b.queue
            /\ unacked' = [unacked EXCEPT ![c] = h.un]
       ELSE /\ queue' = [h.b.queue EXCEPT ![ConsumerQueue(c)] =
                            [n \in 1..Len(h.un) |-> h.un[n].msg] \o @]
            /\ unacked' = [unacked EXCEPT ![c] = <<>>]
    /\ UNCHANGED <<topology, setup, payload, producer, nextTag, nPub, client>>

\* The consume loop of an order worker calls the callback with its oldest
\* delivery.
WorkerCallback(w) ==
    /\ running[w]
    /\ unacked[w] # <<>>
    /\ \E in \in CallbackInputs(w, Head(unacked[w])) :
          Handled(w, Head(unacked[w]),
                  OrderCallback(Handler(w), w, Head(unacked[w]), in))

\* One turn of demo_producer's loop: the created event, its log, the order.
DemoProduce ==
    \E t \in OrderTypes \ {"INTERNATIONAL"} :
        LET order == Order(IF nPub = 0 THEN "ORD-001" ELSE "ORD-002", t)
            event == CreatedEvent(order)
        IN /\ nPub < MaxOrders
           /\ nPub' = nPub + 1
           /\ SetBroker(publish_order(
                  publish_log(publish_event(Broker, event), event, OrderTypeValue(t)),
                  order))
           /\ UNCHANGED <<topology, setup, payload, producer, unacked, running, nextTag, nFaults, dlog, client>>

\* Bodies Order.from_json does not take.
BadBodies ==
    { InvalidJson,
      [order_id |-> "ORD-00X", customer_id |-> "CUST", product_id |-> "PROD", quantity |-> 1],
      [order_id |-> "ORD-00X", customer_id |-> "CUST", product_id |-> "PROD", quantity |-> 1,
       order_type |-> <<"overnight">>] }

\* A producer outside this repository publishes to the order exchange a body
\* that is no order.
ForeignOrder ==
    \E body \in BadBodies :
        /\ nPub < MaxOrders
        /\ nPub' = nPub + 1
        /\ SetBroker(BasicPublish(Broker, EXCHANGE_ORDERS, ROUTING_KEY_STANDARD, body,
                                  PlainProperties))
        /\ UNCHANGED <<topology, setup, payload, producer, unacked, running, nextTag, nFaults, dlog, client>>

\* The order workers have been started: basic_qos, basic_consume,
\* start_consuming.
Init == InitBroker /\ running = [c \in Consumers |-> c \in Workers]

Next ==
    \/ DemoProduce
    \/ ForeignOrder
    \/ \E w \in Workers : Deliver(w)
    \/ \E w \in Workers : WorkerCallback(w)

Spec == Init /\ [][Next]_vars

\* ------------------------------------------------------ order-flow claims
Deliveries == {dlog[n] : n \in 1..Len(dlog)}
WorkerDeliveries == {dl \in Deliveries : dl.consumer \in Workers}

\* How often a handler's run made a call.
Calls(dl, op) == Cardinality({n \in 1..Len(dl.ops) : dl.ops[n].op = op /\ dl.ops[n].arg # "raised"})

\* Whether a call of the handler's run raised.
Raised(dl) == \E n \in 1..Len(dl.ops) : dl.ops[n].arg = "raised"

\* Whether a delivery is among the unresolved ones of its consumer's channel.
Unresolved(dl) == \E n \in 1..Len(unacked[dl.consumer]) : unacked[dl.consumer][n].tag = dl.tag

\* C1: a delivery to an order worker is never resolved twice, and once its
\* callback has run it is resolved exactly once: one basic_ack or one
\* basic_nack(requeue=False), not both; the broker then no longer counts it
\* as unresolved.
C1_ResolvedExactlyOnce ==
    \A dl \in WorkerDeliveries :
        /\ Calls(dl, "basic_ack") + Calls(dl, "basic_nack") = IF dl.done THEN 1 ELSE 0
        /\ \A n \in 1..Len(dl.ops) :
              dl.ops[n].op = "basic_nack" => dl.ops[n].arg = "requeue=False"
        /\ Unresolved(dl) <=> ~dl.done

\* One delivery was acknowledged, another was rejected after a publish of
\* its callback raised.
C1_Witness ==
    /\ \E dl \in WorkerDeliveries : dl.done /\ Calls(dl, "basic_ack") = 1
    /\ \E dl \in WorkerDeliveries :
          /\ dl.done
          /\ Calls(dl, "basic_nack") = 1
          /\ \E n \in 1..Len(dl.ops) :
                dl.ops[n].op = "publish_log" /\ dl.ops[n].arg = "raised"

\* C2: a message an order worker rejected is once on the dead-letter queue,
\* is not on the queue it came from, and was delivered from that queue only
\* that one time.
C2_DeadLettered ==
    \A dl \in WorkerDeliveries : (dl.done /\ Calls(dl, "basic_nack") = 1) =>
        /\ Copies(QUEUE_DLQ, dl.id) = 1
        /\ Copies(dl.queue, dl.id) = 0
        /\ \A other \in Deliveries : other.id = dl.id => other = dl

\* A rejected message is on the dead-letter queue.
C2_Witness ==
    \E dl \in WorkerDeliveries :
        /\ dl.done
        /\ Calls(dl, "basic_nack") = 1
        /\ Copies(QUEUE_DLQ, dl.id) = 1

\* C3: an order worker has at most one unresolved delivery; any earlier
\* delivery to it has been resolved.
C3_PrefetchOne ==
    \A w \in Workers :
        /\ Len(unacked[w]) <= 1
        /\ Cardinality({dl \in Deliveries : dl.consumer = w /\ ~dl.done}) <= 1

\* A worker holds one unresolved delivery and is not handed the message that
\* waits on its queue.
C3_Witness ==
    \E w \in Workers :
        /\ Len(unacked[w]) = 1
        /\ queue[ConsumerQueue(w)] # <<>>
        /\ ~ENABLED Deliver(w)

\* C4: no exception leaves the order worker's callback: the consume loop of
\* every worker is running, a run in which a call raised ends with
\* basic_nack(requeue=False) and no basic_ack, and a worker without an
\* unresolved delivery is handed the next message of its queue.
C4_ExceptionToNack ==
    /\ \A w \in Workers :
          /\ running[w]
          /\ (unacked[w] = <<>> /\ queue[ConsumerQueue(w)] # <<>>) => ENABLED Deliver(w)
    /\ \A dl \in WorkerDeliveries : dl.done =>
          /\ dl.exc = NoExc
          /\ Raised(dl) =>
                /\ Calls(dl, "basic_ack") = 0
                /\ dl.ops[Len(dl.ops)] = [op |-> "basic_nack", arg |-> "requeue=False"]

\* A worker's callback met an exception, and the same worker has handled a
\* later delivery.
C4_Witness ==
    \E a, b \in WorkerDeliveries :
        /\ a.consumer = b.consumer
        /\ a.tag < b.tag
        /\ a.done /\ Raised(a)
        /\ b.done

\* ------------------------------------------------------- fanout subscribers
\* Events published in one behaviour of the subscribers' specification.
MaxEvents == 2

FanoutSubscribers == {"notification", "analytics"}

EventTypeValues == {EventTypeValue(e) : e \in EventTypes}
EventTypeOf(v) == CHOOSE e \in EventTypes : EventTypeValue(e) = v

\* The fields of OrderEvent; metadata has a default.
EventFields == {"event_type", "order_id", "message", "metadata"}

\* OrderEvent.from_json on a body it takes.
EventFromJson(body) ==
    [f \in EventFields |->
        IF f \notin DOMAIN body THEN NoMetadata
        ELSE IF f = "event_type" THEN EventTypeOf(body[f])
        ELSE body[f]]

\* OrderEvent.from_json(body.decode()), which may raise.
CallEventFromJson(h, body) ==
    IF h.exc # NoExc THEN h
    ELSE IF ~IsJson(body) THEN Raise(h, "JSONDecodeError", "from_json")
    ELSE IF "event_type" \notin DOMAIN body THEN Raise(h, "KeyError", "from_json")
    ELSE IF body.event_type \notin EventTypeValues THEN Raise(h, "ValueError", "from_json")
    ELSE IF ~(EventFields \ {"metadata"} \subseteq DOMAIN body /\ DOMAIN body \subseteq EventFields)
         THEN Raise(h, "TypeError", "from_json")
    ELSE Did(h, "from_json", "")

\* _send_notification(event): a dictionary lookup and a print.
send_notification(h, body) ==
    IF h.exc # NoExc THEN h
    ELSE Did(h, "send_notification", EventFromJson(body).event_type)

\* _record_metric(event): formats metadata["processing_time"] with :.2f,
\* which raises for a value that is no number.
record_metric(h, body) ==
    IF h.exc # NoExc THEN h
    ELSE LET metadata == EventFromJson(body).metadata
         IN IF metadata # NoMetadata /\ "processing_time" \in DOMAIN metadata
                           /\ metadata.processing_time # ProcessingTime
            THEN Raise(h, "ValueError", "record_metric")
            ELSE Did(h, "record_metric", EventFromJson(body).event_type)

\* start_notification_service's callback: no try statement.
notification_callback(h, d) ==
    basic_ack(send_notification(CallEventFromJson(h, d.msg.body), d.msg.body), d)

\* start_analytics_service's callback: no try statement.
analytics_callback(h, d) ==
    basic_ack(record_metric(CallEventFromJson(h, d.msg.body), d.msg.body), d)

NotificationCallback ==
    LET s == "notification" IN
    /\ running[s]
    /\ unacked[s] # <<>>
    /\ Handled(s, Head(unacked[s]), notification_callback(Handler(s), Head(unacked[s])))

AnalyticsCallback ==
    LET s == "analytics" IN
    /\ running[s]
    /\ unacked[s] # <<>>
    /\ Handled(s, Head(unacked[s]), analytics_callback(Handler(s), Head(unacked[s])))

\* CTRL+C, or the death of the subscriber's process: start_consuming ends,
\* the connection is closed and the broker puts the channel's unresolved
\* deliveries back at the head of the queue.
StopSubscriber(s) ==
    /\ running[s]
    /\ running' = [running EXCEPT ![s] = FALSE]
    /\ queue' = [queue EXCEPT ![ConsumerQueue(s)] =
                    [n \in 1..Len(unacked[s]) |-> unacked[s][n].msg] \o @]
    /\ unacked' = [unacked EXCEPT ![s] = <<>>]
    /\ UNCHANGED <<topology, setup, payload, producer, nextId, nextTag, nPub, nFaults, pubLog, dlog, client>>

\* The events the repository publishes: the producer's created event and the
\* worker's completion event.
DemoEvents ==
    { CreatedEvent(Order("ORD-001", "STANDARD")),
      OrderEvent("ORDER_COMPLETED", "ORD-001", <<"Completed by worker", "w1">>,
                 [worker_id |-> "w1", processing_time |-> ProcessingTime]) }

EventPublish ==
    \E event \in DemoEvents :
        /\ nPub < MaxEvents
        /\ nPub' = nPub + 1
        /\ SetBroker(publish_event(Broker, event))
        /\ UNCHANGED <<topology, setup, payload, producer, unacked, running, nextTag, nFaults, dlog, client>>

\* Bodies on the event exchange that a subscriber's callback does not take:
\* no JSON, no event_type (the body worker.py publishes), and a processing
\* time that is a string.
BadEvents ==
    { InvalidJson,
      [order_id |-> "ORD-001", status |-> "completed", worker_id |-> "w1",
       processing_time |-> ProcessingTime],
      [event_type |-> EventTypeValue("ORDER_COMPLETED"), order_id |-> "ORD-001",
       message |-> <<"m">>, metadata |-> [processing_time |-> "1.5s"]] }

\* Another producer publishes to the event exchange.
ForeignEvent ==
    \E body \in BadEvents :
        /\ nPub < MaxEvents
        /\ nPub' = nPub + 1
        /\ SetBroker(BasicPublish(Broker, EXCHANGE_EVENTS, EmptyStr, body, PlainProperties))
        /\ UNCHANGED <<topology, setup, payload, producer, unacked, running, nextTag, nFaults, dlog, client>>

\* The order type taken from the second segment.
LogOrderTypeSecond(routing_key) ==
    LET parts == Split(routing_key)
    IN IF Len(parts) >= 3 THEN parts[2] ELSE <<"unknown">>

\* parts = routing_key.split("."); parts[2] if len(parts) >= 3 else "unknown".
LogOrderType(routing_key) ==
    LET parts == Split(routing_key)
    IN IF Len(parts) >= 3 THEN parts[3] ELSE <<"unknown">>

\* The log line of start_log_service's callback; the history keeps the first
\* token of the order type it prints.
log_print(h, d) ==
    IF h.exc # NoExc THEN h
    ELSE LET order_type == LogOrderType(d.msg.key)
         IN Did(h, "print", IF order_type = <<>> THEN "" ELSE order_type[1])

\* start_log_service's callback: no try statement.
log_callback(h, d) == basic_ack(log_print(CallEventFromJson(h, d.msg.body), d), d)

LogCallback ==
    LET s == "logs" IN
    /\ running[s]
    /\ unacked[s] # <<>>
    /\ Handled(s, Head(unacked[s]), log_callback(Handler(s), Head(unacked[s])))

\* publish_log for the created event of a standard order, as demo_producer
\* calls it.
LogPublish ==
    LET order == Order("ORD-001", "STANDARD") IN
    /\ nPub < MaxEvents
    /\ nPub' = nPub + 1
    /\ SetBroker(publish_log(Broker, CreatedEvent(order), OrderTypeValue(order.order_type)))
    /\ UNCHANGED <<topology, setup, payload, producer, unacked, running, nextTag, nFaults, dlog, client>>

\* Another producer publishes to the log exchange: the log worker.py
\* publishes under order.completed, whose body has no event_type.
ForeignLog ==
    /\ nPub < MaxEvents
    /\ nPub' = nPub + 1
    /\ SetBroker(BasicPublish(Broker, EXCHANGE_LOGS, <<"order", ".", "completed">>,
                              [event |-> <<"order", ".", "completed">>, order_id |-> "ORD-001",
                               worker_id |-> "w1", timestamp |-> ProcessingTime],
                              PersistentJson))
    /\ UNCHANGED <<topology, setup, payload, producer, unacked, running, nextTag, nFaults, dlog, client>>

EventSubscribers == FanoutSubscribers \cup {"logs"}

InitEvents == InitBroker /\ running = [c \in Consumers |-> c \in EventSubscribers]

NextEvents ==
    \/ EventPublish
    \/ ForeignEvent
    \/ LogPublish
    \/ ForeignLog
    \/ \E s \in EventSubscribers : Deliver(s)
    \/ NotificationCallback
    \/ AnalyticsCallback
    \/ LogCallback
    \/ \E s \in FanoutSubscribers : StopSubscriber(s)

SpecEvents == InitEvents /\ [][NextEvents]_vars

\* A step taken by subscriber s or by the broker on its behalf.
SubscriberStep(s) ==
    \/ Deliver(s)
    \/ s = "notification" /\ NotificationCallback
    \/ s = "analytics" /\ AnalyticsCallback
    \/ StopSubscriber(s)

Other(s) == CHOOSE o \in FanoutSubscribers : o # s

DeliveriesTo(c) == SelectSeq(dlog, LAMBDA dl : dl.consumer = c)

\* How many deliveries of message i the consumer holds unresolved.
Held(c, i) == Cardinality({n \in 1..Len(unacked[c]) : unacked[c][n].msg.id = i})

\* How many deliveries of message i the consumer has acknowledged.
Acked(c, i) ==
    Cardinality({dl \in Deliveries :
                    dl.consumer = c /\ dl.id = i /\ dl.done /\ Calls(dl, "basic_ack") = 1})

\* Every message published to the event exchange has one copy for each
\* subscriber: on its queue, unresolved on its channel, or acknowledged.
OneCopyEach ==
    \A p \in Published : p.exchange = EXCHANGE_EVENTS =>
        \A s \in FanoutSubscribers :
            Copies(SubscriberQueue(s), p.id) + Held(s, p.id) + Acked(s, p.id) = 1

\* A step of one subscriber leaves the other's queue, unresolved deliveries,
\* consume loop and deliveries as they are.
OtherUntouched ==
    \A s \in FanoutSubscribers : SubscriberStep(s) =>
        /\ queue'[SubscriberQueue(Other(s))] = queue[SubscriberQueue(Other(s))]
        /\ unacked'[Other(s)] = unacked[Other(s)]
        /\ running'[Other(s)] = running[Other(s)]
        /\ DeliveriesTo(Other(s))' = DeliveriesTo(Other(s))

\* C7: the notification and analytics subscribers are independent: whatever
\* one of them does (a delivery, an acknowledgment, a callback that raises,
\* a stop) leaves the queue and the deliveries of the other
\* unchanged, and every published event has exactly one copy for each of
\* the two, whichever of them acknowledges first.
C7_Independent == []OneCopyEach /\ [][OtherUntouched]_vars

\* The analytics callback raised on a message the notification subscriber
\* acknowledged, and the notification subscriber has acknowledged a later
\* event whose analytics copy still waits, never delivered.
C7_Witness ==
    /\ \E dl \in Deliveries :
          /\ dl.consumer = "analytics" /\ dl.done /\ dl.exc # NoExc
          /\ Acked("notification", dl.id) = 1
    /\ \E p \in Published :
          /\ p.exchange = EXCHANGE_EVENTS
          /\ Acked("notification", p.id) = 1
          /\ Copies(QUEUE_ANALYTICS, p.id) = 1
          /\ \A dl \in Deliveries : dl.consumer = "analytics" => dl.id # p.id

\* --------------------------------------------------------------------- RPC
\* Requests published in one behaviour, by check_inventory and by other
\* producers together.
MaxRequests == 2

\* Deliveries after which a stopped server is not started again.
MaxDeliveries == 2

\* str(uuid.uuid4()): a fresh token for every call.
Uuids == <<"uuid-1", "uuid-2", "uuid-3", "uuid-4">>
Uuid(n) == Uuids[n]
\* The tokens of a second client: uuid4 does not repeat another's.
OtherUuids == <<"uuid-5", "uuid-6", "uuid-7", "uuid-8">>
ClientUuid(c, n) == IF c = "c1" THEN Uuid(n) ELSE OtherUuids[n]

\* The products demo_rpc_client asks for, in order.
Products ==
    << [product_id |-> "PROD-A", quantity |-> 2],
       [product_id |-> "PROD-B", quantity |-> 5],
       [product_id |-> "PROD-C", quantity |-> 1] >>

\* The routing key a string is.
StrKey(str) == IF str = "" THEN EmptyStr ELSE <<str>>

\* Python's truth value of an optional string: None and "" are false.
Truthy(str) == str # None /\ str # ""

\* A JSON body that is an array, not an object.
JsonArray == [json_array |-> TRUE]
IsJsonObject(body) == IsJson(body) /\ "json_array" \notin DOMAIN body

\* request.get(key) finding no key.
GetNone(request, key) == None

\* request.get(key).
Get(request, key) == IF key \in DOMAIN request THEN request[key] ELSE None

\* random.randint(0, 100): one of its values.
StockLevels == {100}

\* What a run of _on_request draws and meets: the result of _check_inventory,
\* the stock level, and whether CTRL+C arrives between the publish and the
\* acknowledgment.
RequestInputs ==
    {in \in [available : BOOLEAN, stock_level : StockLevels, interrupt : BOOLEAN] :
        in.interrupt => nFaults < MaxFaults}

\* pika.BasicProperties(correlation_id=properties.correlation_id).
ReplyProperties(properties) == Properties("transient", None, properties.correlation_id, None)

\* _on_request publishing whether or not the request names a reply queue.
on_request_unconditional(h, d, in) ==
    LET body == d.msg.body
        properties == d.msg.props
        h1 == IF ~IsJson(body) THEN Raise(h, "JSONDecodeError", "json_loads")
              ELSE IF ~IsJsonObject(body) THEN Raise(h, "AttributeError", "get")
              ELSE Did(h, "check_inventory", "")
    IN IF h1.exc # NoExc THEN h1
       ELSE basic_ack(
              [Did(h1, "basic_publish", "") EXCEPT
                  !.b = BasicPublish(h1.b, DEFAULT_EXCHANGE, StrKey(properties.reply_to),
                                     [product_id |-> Get(body, "product_id"),
                                      quantity |-> Get(body, "quantity"),
                                      available |-> in.available,
                                      stock_level |-> in.stock_level],
                                     ReplyProperties(properties))], d)

\* InventoryRPCServer._on_request: no try statement.
\* on_request answering on the first client's queue whatever reply_to says.
on_request_one_queue(h, d, in) ==
    LET body == d.msg.body
        properties == d.msg.props
        h1 == IF ~IsJson(body) THEN Raise(h, "JSONDecodeError", "json_loads")
              ELSE IF ~IsJsonObject(body) THEN Raise(h, "AttributeError", "get")
              ELSE Did(h, "check_inventory", "")
    IN IF h1.exc # NoExc THEN h1
       ELSE basic_ack(
              [Did(h1, "basic_publish", "") EXCEPT
                  !.b = BasicPublish(h1.b, DEFAULT_EXCHANGE, StrKey(ReplyQueue("c1")),
                                     [product_id |-> Get(body, "product_id"),
                                      quantity |-> Get(body, "quantity"),
                                      available |-> in.available,
                                      stock_level |-> in.stock_level],
                                     ReplyProperties(properties))], d)

on_request(h, d, in) ==
    LET body == d.msg.body
        properties == d.msg.props
        h1 == IF ~IsJson(body) THEN Raise(h, "JSONDecodeError", "json_loads")
              ELSE IF ~IsJsonObject(body) THEN Raise(h, "AttributeError", "get")
              ELSE Did(h, "check_inventory", "")
    IN IF h1.exc # NoExc THEN h1
       ELSE LET response == [product_id |-> Get(body, "product_id"),
                             quantity |-> Get(body, "quantity"),
                             available |-> in.available,
                             stock_level |-> in.stock_level]
                h2 == IF Truthy(properties.reply_to)
                      THEN [Did(h1, "basic_publish", "") EXCEPT
                              !.b = BasicPublish(h1.b, DEFAULT_EXCHANGE,
                                                 StrKey(properties.reply_to), response,
                                                 ReplyProperties(properties))]
                      ELSE h1
                h3 == IF in.interrupt THEN Raise(h2, "KeyboardInterrupt", "interrupt") ELSE h2
            IN basic_ack(h3, d)

\* The server's consume loop calls _on_request with its oldest delivery.
ServerCallback ==
    LET s == "srv" IN
    /\ running[s]
    /\ unacked[s] # <<>>
    /\ \E in \in RequestInputs :
          Handled(s, Head(unacked[s]), on_request(Handler(s), Head(unacked[s]), in))

\* demo_rpc_server is run again after the server has stopped.
StartServer ==
    /\ ~running["srv"]
    /\ Len(dlog) < MaxDeliveries
    /\ running' = [running EXCEPT !["srv"] = TRUE]
    /\ UNCHANGED <<topology, setup, payload, producer, queue, unacked, nextId, nextTag, nPub, nFaults, pubLog, dlog, client>>

\* check_inventory's request for call n of client c.
RequestPublish(b, c, n) ==
    BasicPublish(b, DEFAULT_EXCHANGE, StrKey(QUEUE_INVENTORY_RPC),
                 Products[((n - 1) % Len(Products)) + 1],
                 Properties("transient", None, ClientUuid(c, n), ReplyQueue(c)))

\* check_inventory up to its wait: a new correlation id, no response, the
\* request published to the request queue through the default exchange.
CheckInventoryStart(c) ==
    LET n == client[c].calls + 1 IN
    /\ client[c].pc = "idle"
    /\ client[c].calls + nPub < MaxRequests
    /\ client[c].calls < Len(Uuids)
    /\ client' = [client EXCEPT ![c].pc = "waiting", ![c].calls = n,
                                ![c].correlation_id = ClientUuid(c, n),
                                ![c].response = NoResponse, ![c].from = None]
    /\ SetBroker(RequestPublish(Broker, c, n))
    /\ UNCHANGED <<topology, setup, payload, producer, unacked, running, nextTag, nPub, nFaults, dlog>>

\* _on_response storing every response, whatever its correlation id.
on_response_any(cl, msg) ==
    [cl EXCEPT !.response = msg.body, !.from = msg.props.correlation_id]

\* InventoryRPCClient._on_response.
on_response(cl, msg) ==
    IF cl.correlation_id = msg.props.correlation_id
    THEN [cl EXCEPT !.response = msg.body, !.from = msg.props.correlation_id]
    ELSE [cl EXCEPT !.ignored = Append(@, [call |-> cl.calls,
                                           correlation_id |-> msg.props.correlation_id])]

\* A wait loop that sends the request again while no response is stored.
WaitTurnRetry(b, c, cl) ==
    IF cl.response = NoResponse THEN RequestPublish(b, c, cl.calls) ELSE b

\* What one turn of check_inventory's wait loop does besides
\* process_data_events: nothing; the request is not sent again.
WaitTurn(b, c, cl) == b

\* process_data_events inside check_inventory's wait hands the oldest message
\* of the reply queue to _on_response; the consumer is auto_ack.
OnResponse(c) ==
    LET cl == on_response(client[c], Head(queue[ReplyQueue(c)]))
        taken == [Broker EXCEPT !.queue[ReplyQueue(c)] = Tail(@)]
    IN /\ client[c].pc = "waiting"
       /\ queue[ReplyQueue(c)] # <<>>
       /\ SetBroker(WaitTurn(taken, c, cl))
       /\ client' = [client EXCEPT ![c] = cl]
       /\ UNCHANGED <<topology, setup, payload, producer, unacked, running, nextTag, nPub, nFaults, dlog>>

\* check_inventory's wait ends once self.response is set: return self.response.
CheckInventoryReturn(c) ==
    /\ client[c].pc = "waiting"
    /\ client[c].response # NoResponse
    /\ client' = [client EXCEPT ![c].pc = "idle",
                    ![c].returned = Append(@, [call |-> client[c].calls,
                                               correlation_id |-> client[c].correlation_id,
                                               from |-> client[c].from,
                                               response |-> client[c].response])]
    /\ UNCHANGED <<topology, setup, payload, producer, queue, unacked, running, nextId, nextTag, nPub, nFaults, pubLog, dlog>>

\* What other producers put on the request queue: a request without reply
\* queue, one with an empty reply queue, one whose reply queue is gone, and
\* bodies that are no JSON object.
ForeignRequests ==
    { [body |-> Products[3], reply_to |-> None, correlation_id |-> None],
      [body |-> Products[3], reply_to |-> "", correlation_id |-> "x-1"],
      [body |-> Products[3], reply_to |-> "amq.gen-gone", correlation_id |-> "x-2"],
      [body |-> InvalidJson, reply_to |-> "amq.gen-gone", correlation_id |-> "x-3"],
      [body |-> JsonArray, reply_to |-> "amq.gen-gone", correlation_id |-> "x-4"] }

ForeignRequest ==
    \E r \in ForeignRequests :
        /\ \A c \in Clients : client[c].calls + nPub < MaxRequests
        /\ nPub' = nPub + 1
        /\ SetBroker(BasicPublish(Broker, DEFAULT_EXCHANGE, StrKey(QUEUE_INVENTORY_RPC), r.body,
                                  Properties("transient", None, r.correlation_id, r.reply_to)))
        /\ UNCHANGED <<topology, setup, payload, producer, unacked, running, nextTag, nFaults, dlog, client>>

\* CTRL+C reaches the server while it waits in start_consuming: the loop is
\* stopped, demo_rpc_server closes the connection and the broker puts the
\* channel's unresolved deliveries back at the head of the request queue.
StopServer ==
    LET s == "srv" IN
    /\ running[s]
    /\ running' = [running EXCEPT ![s] = FALSE]
    /\ queue' = [queue EXCEPT ![ConsumerQueue(s)] =
                    [n \in 1..Len(unacked[s]) |-> unacked[s][n].msg] \o @]
    /\ unacked' = [unacked EXCEPT ![s] = <<>>]
    /\ UNCHANGED <<topology, setup, payload, producer, nextId, nextTag, nPub, nFaults, pubLog, dlog, client>>

InitRPC == InitBroker /\ running = [c \in Consumers |-> c \in Servers]

NextRPC ==
    \/ \E c \in Clients : CheckInventoryStart(c)
    \/ \E c \in Clients : OnResponse(c)
    \/ \E c \in Clients : CheckInventoryReturn(c)
    \/ ForeignRequest
    \/ \E s \in Servers : Deliver(s)
    \/ ServerCallback
    \/ StopServer
    \/ StartServer

SpecRPC == InitRPC /\ [][NextRPC]_vars

\* The loops keep going: the client's wait keeps polling for data events and
\* returns once a response is stored; a running server keeps taking requests
\* and handling them.  Starting and stopping the server, and publishing
\* requests, are up to the environment.
FairRPC ==
    /\ \A c \in Clients : WF_vars(OnResponse(c)) /\ WF_vars(CheckInventoryReturn(c))
    /\ \A s \in Servers : WF_vars(Deliver(s))
    /\ WF_vars(ServerCallback)

\* The steps of the calls against a server that was started once.
NextRPCFair ==
    \/ \E c \in Clients : CheckInventoryStart(c)
    \/ \E c \in Clients : OnResponse(c)
    \/ \E c \in Clients : CheckInventoryReturn(c)
    \/ ForeignRequest
    \/ \E s \in Servers : Deliver(s)
    \/ ServerCallback
    \/ StopServer

SpecRPCFair == InitRPC /\ [][NextRPCFair]_vars /\ FairRPC

\* The request a delivery carried, as it was published.
RequestOf(dl) == CHOOSE p \in Published : p.id = dl.id

C10_NoMisattribution ==
    \A c \in Clients :
        /\ client[c].response # NoResponse => client[c].from = client[c].correlation_id
        /\ \A n \in 1..Len(client[c].returned) :
              LET r == client[c].returned[n] IN
              /\ r.correlation_id = Uuid(r.call)
              /\ r.from = r.correlation_id

\* During its second call the client passed over a duplicate response to its
\* first call, and the second call has returned.
C10_Witness ==
    \E c \in Clients :
        /\ \E n \in 1..Len(client[c].ignored) :
              client[c].ignored[n] = [call |-> 2, correlation_id |-> Uuid(1)]
        /\ \E n \in 1..Len(client[c].returned) : client[c].returned[n].call = 2

\* C11: when the RPC server stays down for good, no call of check_inventory
\* waits forever: the client is again and again out of its wait.
C11_CallTerminates ==
    \A c \in Clients :
        <>[](\A s \in Servers : ~running[s]) => []<>(client[c].pc = "idle")

\* The runs of _on_request on the request a call published.
RunsFor(correlation_id) ==
    {dl \in Deliveries : dl.consumer \in Servers /\ dl.done
                         /\ RequestOf(dl).props.correlation_id = correlation_id}

\* A result check_inventory returned is for the product asked for and is a
\* response the server published while handling this call's request.
ReturnedOwnResponse ==
    \A c \in Clients : \A n \in 1..Len(client[c].returned) :
        LET r == client[c].returned[n] IN
        /\ r.response.product_id = Products[r.call].product_id
        /\ \E dl \in RunsFor(r.correlation_id) :
              \E k \in 1..Len(dl.pubs) : dl.pubs[k].body = r.response

\* C12: as long as the RPC server keeps running, every call of
\* check_inventory returns; and what a call returns carries the product id
\* that was asked for and is the response the server produced for this
\* call's request.
C12_RoundTrip ==
    /\ []ReturnedOwnResponse
    /\ \A c \in Clients :
          [](\A s \in Servers : running[s])
              => ((client[c].pc = "waiting") ~> (client[c].pc = "idle"))

\* Two calls have returned, each with the product it asked for.
C12_Witness ==
    \E c \in Clients :
        /\ Len(client[c].returned) = 2
        /\ client[c].returned[1].response.product_id = "PROD-A"
        /\ client[c].returned[2].response.product_id = "PROD-B"

\* The calls of a handler's run, in order.
OpNames(dl) == [n \in 1..Len(dl.ops) |-> dl.ops[n].op]

\* The run of _on_request went: inventory check, response published when the
\* request names a reply queue, acknowledgment.
InOrder(dl) ==
    /\ OpNames(dl) = IF Truthy(RequestOf(dl).props.reply_to)
                     THEN <<"check_inventory", "basic_publish", "basic_ack">>
                     ELSE <<"check_inventory", "basic_ack">>
    /\ \A n \in 1..Len(dl.ops) : dl.ops[n].arg # "raised"

\* C13: every request the server's callback has run on, an interrupt of the
\* server aside, was first checked, then answered when it names a reply
\* queue, and only then acknowledged, once.
C13_ServerOrder ==
    \A dl \in Deliveries :
        (dl.consumer \in Servers /\ dl.done /\ dl.exc # "KeyboardInterrupt") => InOrder(dl)

\* The same for the requests whose body is a JSON object.
ServerOrderOfObjects ==
    \A dl \in Deliveries :
        (dl.consumer \in Servers /\ dl.done /\ dl.exc # "KeyboardInterrupt"
           /\ IsJsonObject(RequestOf(dl).body)) => InOrder(dl)

\* ------------------------------------------------- subscribers' claims
\* The deliveries whose handler has run at a notification, analytics or log
\* subscriber or at the RPC server.
HandledDeliveries ==
    {dl \in Deliveries : dl.consumer \in EventSubscribers \cup Servers /\ dl.done}

\* C14: a failure inside the message handler of a notification, analytics or
\* log subscriber, or of the RPC server, stays with that message: no
\* exception leaves the handler, which is what keeps the consume loop going
\* for the messages queued after it.
C14_FailureIsolated == \A dl \in HandledDeliveries : dl.exc \notin Exceptions

\* The work of a subscriber's callback that precedes its acknowledgment.
HandlerWork(s) ==
    IF s = "notification" THEN "send_notification"
    ELSE IF s = "analytics" THEN "record_metric"
    ELSE "print"

\* The handler's run decoded the event, did the subscriber's work and then
\* acknowledged, once, and the delivery is no longer unresolved.
AckedAfterWork(dl) ==
    /\ OpNames(dl) = <<"from_json", HandlerWork(dl.consumer), "basic_ack">>
    /\ ~Raised(dl)
    /\ ~Unresolved(dl)

\* C15: every event delivered to the notification, analytics or log
\* subscriber is acknowledged exactly once by its handler's run, and the
\* acknowledgment is the run's last call, after the decoding and the
\* subscriber's work (notification, metric, log line).
C15_AckedOnceAfterWork ==
    \A dl \in HandledDeliveries : dl.consumer \in EventSubscribers => AckedAfterWork(dl)

\* The same for the runs no exception leaves.
AckedAfterWorkIfReturned ==
    \A dl \in HandledDeliveries :
        (dl.consumer \in EventSubscribers /\ dl.exc = NoExc) => AckedAfterWork(dl)

\* ------------------------------------------------- order worker's claims
\* Whether a publish_event or publish_log call of the handler's run raised.
PublishRaised(dl) ==
    \E n \in 1..Len(dl.ops) :
        dl.ops[n].arg = "raised" /\ dl.ops[n].op \in {"publish_event", "publish_log"}

\* C16: a publish_event or publish_log call that raises in the order worker's
\* callback, in the try block or in the except block, does not keep the
\* delivered order from being resolved: the run still ends with one basic_ack
\* or one basic_nack, no exception leaves it and the delivery is no longer
\* unresolved.
C16_BestEffortEvents ==
    \A dl \in WorkerDeliveries : (dl.done /\ PublishRaised(dl)) =>
        /\ Calls(dl, "basic_ack") + Calls(dl, "basic_nack") = 1
        /\ dl.ops[Len(dl.ops)].op \in {"basic_ack", "basic_nack"}
        /\ dl.exc = NoExc
        /\ ~Unresolved(dl)

\* A publish of the try block raised, a publish of the failure event raised
\* as well, and the order was negatively acknowledged.
C16_Witness ==
    \E dl \in WorkerDeliveries :
        /\ dl.done
        /\ Cardinality({n \in 1..Len(dl.ops) :
               dl.ops[n].arg = "raised" /\ dl.ops[n].op \in {"publish_event", "publish_log"}}) = 2
        /\ Calls(dl, "basic_nack") = 1
        /\ ~Unresolved(dl)

\* CTRL+C while the order worker's callback sleeps over an order: the
\* KeyboardInterrupt is no Exception, so it leaves the callback and
\* start_consuming; start_worker catches it, calls stop_consuming and
\* returns, and demo_worker's finally closes the connection.
WorkerInterrupt(w) ==
    /\ running[w]
    /\ unacked[w] # <<>>
    /\ ~OrderFromJsonRaises(Head(unacked[w]).msg.body)
    /\ Handled(w, Head(unacked[w]),
               OrderCallback(Handler(w), w, Head(unacked[w]),
                             [try |-> "interrupt", except |-> "none"]))

\* CTRL+C while start_consuming waits for the next delivery.
WorkerStop(w) == unacked[w] = <<>> /\ StopSubscriber(w)

NextShutdown ==
    \/ Next
    \/ \E w \in Workers : WorkerInterrupt(w)
    \/ \E w \in Workers : WorkerStop(w)

SpecShutdown == Init /\ [][NextShutdown]_vars

\* C17: when start_worker has returned and the connection is released, every
\* delivery the worker's callback was entered for has been resolved: its run
\* made one basic_ack or one basic_nack, also when the interrupt arrived
\* during that run.
C17_GracefulShutdown ==
    \A dl \in WorkerDeliveries : (dl.done /\ ~running[dl.consumer]) =>
        Calls(dl, "basic_ack") + Calls(dl, "basic_nack") = 1

\* The workers that hold message i unresolved.
Owners(i) == {w \in Workers : Held(w, i) > 0}

\* Message i is in one place at most: ready on the order queue, or unresolved
\* at one worker, once.
OwnedByOne(i) ==
    /\ Cardinality(Owners(i)) <= 1
    /\ \A w \in Workers : Held(w, i) <= 1
    /\ Owners(i) # {} => Copies(get_queue_for_order_type("STANDARD"), i) = 0

\* C18: with two order workers consuming the same order queue, a message is
\* owned by one worker at most at any time, never unresolved at both, and
\* while no worker disconnects a message one worker received is not delivered
\* to the other.
C18_CompetingConsumers ==
    /\ \A p \in Published : OwnedByOne(p.id)
    /\ \A a, b \in WorkerDeliveries : a.id = b.id => a.consumer = b.consumer

\* Both workers hold an unresolved order of the same queue, two different
\* messages, and neither of them was delivered to the other worker.
C18_Witness ==
    \E a, b \in WorkerDeliveries :
        /\ a.consumer = "w1" /\ b.consumer = "w2"
        /\ a.queue = b.queue
        /\ a.id # b.id
        /\ Unresolved(a) /\ Unresolved(b)

\* ------------------------------------------------------------------ setup
\* Runs of setup_infrastructure one process makes in one behaviour.
MaxRuns == 2

OtherProcess(p) == CHOOSE o \in SetupProcesses : o # p

\* demo_setup is started: a connection, a channel, setup_infrastructure.
SetupStart(p) ==
    /\ setup[p].at = 0
    /\ setup[p].err = None
    /\ setup[p].started < MaxRuns
    /\ setup' = [setup EXCEPT ![p].at = 1, ![p].started = @ + 1]
    /\ UNCHANGED <<topology, payload, producer, queue, unacked, running, nextId, nextTag, nPub, nFaults,
                   pubLog, dlog, client>>

\* The next call of setup_infrastructure.  A channel error raises out of
\* setup_infrastructure and ends the run; after the last call the run has
\* completed and demo_setup closes the connection.
SetupStep(p) ==
    LET n == setup[p].at
        r == Declare(topology, SetupSteps[n])
        last == n = Len(SetupSteps)
    IN /\ n > 0
       /\ topology' = r.t
       /\ setup' = [setup EXCEPT
             ![p].at = IF r.err # None \/ last THEN 0 ELSE n + 1,
             ![p].err = r.err,
             ![p].left = IF r.err = None /\ last THEN Append(@, r.t) ELSE @,
             ![p].overlapped = @ \/ (n > 1 /\ setup[OtherProcess(p)].at > 1),
             ![OtherProcess(p)].overlapped = @ \/ (n > 1 /\ setup[OtherProcess(p)].at > 1)]
       /\ UNCHANGED <<payload, producer, queue, unacked, running, nextId, nextTag, nPub, nFaults,
                      pubLog, dlog, client>>

\* A fresh broker, and no process has run demo_setup yet.
InitSetup ==
    /\ payload = NoPayload
    /\ producer = NewProducer
    /\ topology = EmptyTopology
    /\ setup = [p \in SetupProcesses |-> SetupIdle]
    /\ client = [c \in ConcurrentClients |-> NewClient]
    /\ queue = [q \in QueueNames |-> <<>>]
    /\ unacked = [c \in Consumers |-> <<>>]
    /\ running = [c \in Consumers |-> FALSE]
    /\ nextId = 1
    /\ nextTag = 1
    /\ nPub = 0
    /\ nFaults = 0
    /\ pubLog = <<>>
    /\ dlog = <<>>

NextSetup ==
    \/ \E p \in SetupProcesses : SetupStart(p)
    \/ \E p \in SetupProcesses : SetupStep(p)

SpecSetup == InitSetup /\ [][NextSetup]_vars

\* C19: a run of setup_infrastructure against a broker that holds the
\* topology of an earlier completed run raises no error, while it runs and
\* when it has completed, and leaves the exchanges, the queues with their
\* durability and dead-letter argument, and the bindings exactly as the
\* first run left them.
C19_SetupIdempotent ==
    \A p \in SetupProcesses : setup[p].left # <<>> =>
        /\ setup[p].err = None
        /\ topology = setup[p].left[1]
        /\ \A n \in 1..Len(setup[p].left) : setup[p].left[n] = setup[p].left[1]

\* One process has completed setup_infrastructure twice, the other has not
\* started, and the broker holds the three exchange types, the dead-letter
\* argument and the bindings.
C19_Witness ==
    /\ Len(setup["p1"].left) = 2
    /\ setup["p2"].started = 0
    /\ topology = Topology
    /\ Cardinality(topology.exchanges) = 4
    /\ Cardinality(topology.queues) = 8
    /\ Cardinality(topology.bindings) = 7

\* C20: two processes that run setup_infrastructure at once, their calls
\* interleaved in any order, meet no error, and when both have completed
\* the broker holds the topology a single run leaves; before that it holds
\* a part of it.
C20_ConcurrentSetup ==
    /\ \A p \in SetupProcesses : setup[p].err = None
    /\ topology.exchanges \subseteq Topology.exchanges
    /\ topology.queues \subseteq Topology.queues
    /\ topology.bindings \subseteq Topology.bindings
    /\ (\E p \in SetupProcesses : setup[p].left # <<>>) => topology = Topology

\* Both processes have completed their first run, and calls of each fell
\* between calls of the other.
C20_Witness ==
    \A p \in SetupProcesses :
        /\ setup[p].started = 1
        /\ Len(setup[p].left) = 1
        /\ setup[p].overlapped
        /\ setup[p].left[1] = Topology

\* ---------------------------------------------------------- log subscriber
\* publish_log for every event type and order type.
LogPublishAll ==
    \E e \in EventTypes, t \in OrderTypes :
        /\ nPub < MaxEvents
        /\ nPub' = nPub + 1
        /\ SetBroker(publish_log(Broker, OrderEvent(e, "ORD-001", <<"m">>, NoMetadata),
                                 OrderTypeValue(t)))
        /\ UNCHANGED <<topology, setup, payload, producer, unacked, running, nextTag, nFaults, dlog, client>>

\* Another producer publishes an event to the log exchange under a key of
\* its own.
ForeignLogKey ==
    \E k \in ForeignKeys :
        /\ nPub < MaxEvents
        /\ nPub' = nPub + 1
        /\ SetBroker(BasicPublish(Broker, EXCHANGE_LOGS, k,
                                  EventToJson(OrderEvent("ORDER_CREATED", "ORD-001", <<"m">>,
                                                         NoMetadata)),
                                  PersistentJson))
        /\ UNCHANGED <<topology, setup, payload, producer, unacked, running, nextTag, nFaults, dlog, client>>

InitLogs == InitBroker /\ running = [c \in Consumers |-> c = "logs"]

NextLogs ==
    \/ LogPublishAll
    \/ ForeignLogKey
    \/ Deliver("logs")
    \/ LogCallback

SpecLogs == InitLogs /\ [][NextLogs]_vars

\* The order type the log callback printed in a run.
Printed(dl) == (CHOOSE o \in {dl.ops[n] : n \in 1..Len(dl.ops)} : o.op = "print").arg

LogRuns == {dl \in Deliveries : dl.consumer = "logs" /\ dl.done /\ ~Raised(dl)}

\* C21: the log callback takes the order type from the routing key alone:
\* for a message publish_log built for event type e and order type t the
\* third segment of the key, which the callback prints, is t, for every e
\* and t; a key of fewer than three segments gives "unknown".
C21_OrderTypeFromKey ==
    /\ \A e \in EventTypes, t \in OrderTypes :
          LogOrderType(LogRoutingKey([event_type |-> e], OrderTypeValue(t))) = OrderTypeValue(t)
    /\ \A dl \in LogRuns :
          LET p == RequestOf(dl) IN
          /\ p.by = "publish_log" =>
                \E t \in OrderTypes :
                    /\ p.key = p.body.event_type \o <<".">> \o OrderTypeValue(t)
                    /\ <<Printed(dl)>> = OrderTypeValue(t)
          /\ Len(Split(p.key)) < 3 => Printed(dl) = "unknown"

\* The callback has printed international for a failed event's log and
\* unknown for a key of two segments.
C21_Witness ==
    \E a, b \in LogRuns :
        /\ RequestOf(a).by = "publish_log"
        /\ RequestOf(a).body.event_type = EventTypeValue("ORDER_FAILED")
        /\ Printed(a) = "international"
        /\ Len(Split(RequestOf(b).key)) = 2
        /\ Printed(b) = "unknown"

\* ---------------------------------------------------------------- payloads
\* Whether OrderEvent.from_json raises: json.loads, data["event_type"],
\* EventType(...), cls(**data) on missing or unexpected fields.
EventFromJsonRaises(body) == CallEventFromJson([exc |-> NoExc, ops |-> <<>>], body).exc # NoExc

\* The orders and events the serialization is tried on: every order type,
\* every event type, metadata absent and as the producer and the worker
\* build it.
PayloadOrders ==
    {[order_id |-> i, customer_id |-> "CUST", product_id |-> "PROD", quantity |-> q,
      order_type |-> t] : i \in OrderIds, q \in {1, 5}, t \in OrderTypes}

PayloadMetadata ==
    { NoMetadata,
      [worker_id |-> "w1"],
      [worker_id |-> "w1", processing_time |-> ProcessingTime],
      [product_id |-> "PROD", quantity |-> 1] }

PayloadEvents ==
    {OrderEvent(e, i, <<"m">>, md) : e \in EventTypes, i \in OrderIds, md \in PayloadMetadata}

\* JSON texts of other producers whose order_type or event_type is no value
\* of the enum: another word, the member's name, the empty string.
PayloadForeign ==
    {[OrderToJson(Order("ORD-001", "STANDARD")) EXCEPT !.order_type = v] :
        v \in {<<"overnight">>, <<"STANDARD">>, <<>>, <<"order", ".", "created">>}}
    \cup
    {[EventToJson(OrderEvent("ORDER_CREATED", "ORD-001", <<"m">>, NoMetadata))
        EXCEPT !.event_type = v] :
        v \in {<<"order", ".", "shipped">>, <<"ORDER_CREATED">>, <<"created">>, <<"standard">>}}

IsOrder(x) == "order_type" \in DOMAIN x

\* to_json of the object.
PayloadToJson ==
    /\ payload.stage = "object"
    /\ payload' = [payload EXCEPT
          !.stage = "json",
          !.json = IF IsOrder(payload.object) THEN OrderToJson(payload.object)
                   ELSE EventToJson(payload.object)]
    /\ UNCHANGED <<topology, setup, producer, queue, unacked, running, nextId, nextTag, nPub, nFaults,
                   pubLog, dlog, client>>

\* from_json of the text: the object it builds, or the exception it raises.
PayloadFromJson ==
    /\ payload.stage = "json"
    /\ LET text == payload.json
           raises == IF IsOrder(text) THEN OrderFromJsonRaises(text)
                     ELSE EventFromJsonRaises(text)
       IN payload' = [payload EXCEPT
             !.stage = IF raises THEN "rejected" ELSE "decoded",
             !.decoded = IF raises THEN Nothing
                         ELSE IF IsOrder(text) THEN OrderFromJson(text)
                         ELSE EventFromJson(text)]
    /\ UNCHANGED <<topology, setup, producer, queue, unacked, running, nextId, nextTag, nPub, nFaults,
                   pubLog, dlog, client>>

InitPayload ==
    /\ topology = Topology
    /\ setup = [p \in SetupProcesses |-> SetupDone]
    /\ client = [c \in ConcurrentClients |-> NewClient]
    /\ queue = [q \in QueueNames |-> <<>>]
    /\ unacked = [c \in Consumers |-> <<>>]
    /\ running = [c \in Consumers |-> FALSE]
    /\ nextId = 1
    /\ nextTag = 1
    /\ nPub = 0
    /\ nFaults = 0
    /\ pubLog = <<>>
    /\ dlog = <<>>
    /\ producer = NewProducer
    /\ payload \in {[NoPayload EXCEPT !.stage = "object", !.object = o] :
                        o \in PayloadOrders \cup PayloadEvents}
                   \cup {[NoPayload EXCEPT !.stage = "json", !.json = j] : j \in PayloadForeign}

NextPayload == PayloadToJson \/ PayloadFromJson

SpecPayload == InitPayload /\ [][NextPayload]_vars

\* The enum field of a JSON text.
JsonEnum(text) == IF IsOrder(text) THEN text.order_type ELSE text.event_type

EnumStrings(text) == IF IsOrder(text) THEN OrderTypeValues ELSE EventTypeValues

ProducerCallSwallowed(st, fn, published, body, raises) ==
    IF raises
    THEN [st EXCEPT !.pr.calls = Append(@, [fn |-> fn, body |-> body, outcome |-> "returned"])]
    ELSE [b |-> published,
          pr |-> [st.pr EXCEPT !.calls = Append(@, [fn |-> fn, body |-> body,
                                                    outcome |-> "returned"])]]

\* publish_order, publish_event or publish_log (fn) as its caller sees it:
\* the function calls basic_publish outside any try, so what basic_publish
\* raises (the channel or the connection is not open) leaves the function,
\* and the producer, which does not catch it either, ends; otherwise the
\* message is with the broker (published) and the function returns.
ProducerCall(st, fn, published, body, raises) ==
    IF raises
    THEN [st EXCEPT !.pr.pc = "failed",
                    !.pr.calls = Append(@, [fn |-> fn, body |-> body, outcome |-> "raised"])]
    ELSE [b |-> published,
          pr |-> [st.pr EXCEPT !.calls = Append(@, [fn |-> fn, body |-> body,
                                                    outcome |-> "returned"])]]

\* One call made by the producer.
ProducerStep(st) ==
    /\ SetBroker(st.b)
    /\ producer' = st.pr
    /\ nPub' = nPub + 1
    /\ UNCHANGED <<topology, setup, payload, unacked, running, nextTag, nFaults, dlog, client>>

ProducerState == [b |-> Broker, pr |-> producer]

ProducerPublishOrder ==
    \E t \in OrderTypes, i \in OrderIds, raises \in BOOLEAN :
        /\ producer.pc = "running"
        /\ nPub < MaxPub
        /\ ProducerStep(ProducerCall(ProducerState, "publish_order",
                                     publish_order(Broker, Order(i, t)),
                                     OrderToJson(Order(i, t)), raises))

ProducerPublishEvent ==
    \E e \in EventTypes, raises \in BOOLEAN :
        LET event == OrderEvent(e, "ORD-001", <<"m">>, NoMetadata)
        IN /\ producer.pc = "running"
           /\ nPub < MaxPub
           /\ ProducerStep(ProducerCall(ProducerState, "publish_event",
                                        publish_event(Broker, event),
                                        EventToJson(event), raises))

ProducerPublishLog ==
    \E e \in EventTypes, t \in OrderTypes, raises \in BOOLEAN :
        LET event == OrderEvent(e, "ORD-001", <<"m">>, NoMetadata)
        IN /\ producer.pc = "running"
           /\ nPub < MaxPub
           /\ ProducerStep(ProducerCall(ProducerState, "publish_log",
                                        publish_log(Broker, event, OrderTypeValue(t)),
                                        EventToJson(event), raises))

InitPublish == InitBroker /\ running = [c \in Consumers |-> FALSE]

NextPublish == ProducerPublishOrder \/ ProducerPublishEvent \/ ProducerPublishLog

SpecPublish == InitPublish /\ [][NextPublish]_vars

\* The calls of the producer that returned, in order.
ReturnedCalls == SelectSeq(producer.calls, LAMBDA c : c.outcome = "returned")

\* The exchange each publish function publishes to.
ExchangeOf(fn) ==
    CASE fn = "publish_order" -> EXCHANGE_ORDERS
      [] fn = "publish_event" -> EXCHANGE_EVENTS
      [] fn = "publish_log" -> EXCHANGE_LOGS

\* C23: every call of publish_order, publish_event or publish_log either
\* returned, and then its message was handed to the broker (the calls that
\* returned and the messages the broker was given correspond one to one, in
\* order, each message given by that function to its exchange with the
\* call's body), or raised to its caller, which ended the producer then.
C23_PublishOrError ==
    /\ Len(ReturnedCalls) = Len(pubLog)
    /\ \A k \in 1..Len(ReturnedCalls) :
          /\ pubLog[k].by = ReturnedCalls[k].fn
          /\ pubLog[k].body = ReturnedCalls[k].body
          /\ pubLog[k].exchange = ExchangeOf(ReturnedCalls[k].fn)
    /\ \A k \in 1..Len(producer.calls) :
          producer.calls[k].outcome = "raised"
              => k = Len(producer.calls) /\ producer.pc = "failed"

\* A publish_order that returned with its message on the express queue,
\* followed by a publish_log that raised and left nothing with the broker.
C23_Witness ==
    /\ Len(producer.calls) = 2
    /\ producer.calls[1].fn = "publish_order" /\ producer.calls[1].outcome = "returned"
    /\ producer.calls[2].fn = "publish_log" /\ producer.calls[2].outcome = "raised"
    /\ Len(pubLog) = 1
    /\ Len(queue[QUEUE_EXPRESS_ORDERS]) = 1

\* ------------------------------------------------- one request per call
\* The publishes of the request of call n of client c: to the default
\* exchange, keyed inventory.rpc, with the call's correlation id and the
\* client's reply queue.
RequestPublishes(c, n) ==
    {k \in 1..Len(pubLog) :
        /\ pubLog[k].exchange = DEFAULT_EXCHANGE
        /\ pubLog[k].key = StrKey(QUEUE_INVENTORY_RPC)
        /\ pubLog[k].props.correlation_id = Uuid(n)
        /\ pubLog[k].props.reply_to = ReplyQueue(c)}

\* C24: every call of check_inventory that has begun has published its
\* request exactly once, however long it has waited and whatever has
\* arrived on its reply queue meanwhile.
C24_RequestOnce ==
    \A c \in Clients : \A n \in 1..client[c].calls :
        Cardinality(RequestPublishes(c, n)) = 1

\* A call that is still waiting after a response with another correlation
\* id went through its wait loop, and has published once.
C24_Witness ==
    \E c \in Clients :
        /\ client[c].pc = "waiting"
        /\ client[c].response = NoResponse
        /\ \E k \in 1..Len(client[c].ignored) : client[c].ignored[k].call = client[c].calls
        /\ Cardinality(RequestPublishes(c, client[c].calls)) = 1

\* ------------------------------------------------ rpc.py: the timed wait
\* config.QUEUE_RPC, the request queue rpc.py publishes to and consumes.
QUEUE_RPC == QUEUE_INVENTORY_RPC

\* rpc.py's on_request: no try statement; PROD-999 is out of stock.
rpc_on_request(h, d) ==
    LET body == d.msg.body
        props == d.msg.props
        h1 == IF ~IsJson(body) THEN Raise(h, "JSONDecodeError", "json_loads")
              ELSE IF ~IsJsonObject(body) THEN Raise(h, "AttributeError", "get")
              ELSE Did(h, "check_inventory", "")
    IN IF h1.exc # NoExc THEN h1
       ELSE LET product_id == IF "product_id" \in DOMAIN body THEN body.product_id
                              ELSE "unknown"
                in_stock == product_id # "PROD-999"
                response == [product_id |-> product_id, in_stock |-> in_stock,
                             quantity |-> IF in_stock THEN 42 ELSE 0]
                h2 == IF Truthy(props.reply_to)
                      THEN [Did(h1, "basic_publish", "") EXCEPT
                              !.b = BasicPublish(h1.b, DEFAULT_EXCHANGE, StrKey(props.reply_to),
                                                 response, ReplyProperties(props))]
                      ELSE h1
            IN basic_ack(h2, d)

\* run_rpc_server's consume loop calls on_request with its oldest delivery.
RpcServerCallback ==
    LET s == "srv" IN
    /\ running[s]
    /\ unacked[s] # <<>>
    /\ Handled(s, Head(unacked[s]), rpc_on_request(Handler(s), Head(unacked[s])))

\* rpc.py's check_inventory up to its wait: a new exclusive reply queue, a
\* new correlation id, an empty response, the request published.
RpcCheckInventoryStart(c) ==
    LET n == client[c].calls + 1 IN
    /\ client[c].pc = "idle"
    /\ client[c].calls + nPub < MaxRequests
    /\ client[c].calls < Len(Uuids)
    /\ client' = [client EXCEPT ![c].pc = "waiting", ![c].calls = n,
                                ![c].correlation_id = Uuid(n),
                                ![c].response = NoResponse, ![c].from = None]
    /\ SetBroker(BasicPublish(Broker, DEFAULT_EXCHANGE, StrKey(QUEUE_RPC),
                              [product_id |-> Products[((n - 1) % Len(Products)) + 1].product_id],
                              Properties("transient", None, Uuid(n), ReplyQueue(c))))
    /\ UNCHANGED <<topology, setup, payload, producer, unacked, running, nextTag, nPub, nFaults, dlog>>

\* rpc.py's on_response: a message with the call's correlation id fills the
\* response (and is acknowledged); any other message is passed over.
rpc_on_response(cl, msg) ==
    IF msg.props.correlation_id = cl.correlation_id
    THEN [cl EXCEPT !.response = msg.body, !.from = msg.props.correlation_id]
    ELSE [cl EXCEPT !.ignored = Append(@, [call |-> cl.calls,
                                           correlation_id |-> msg.props.correlation_id])]

\* The messages that have arrived, handed to on_response oldest first.
RECURSIVE Dispatch(_, _)
Dispatch(cl, msgs) ==
    IF msgs = <<>> THEN cl ELSE Dispatch(rpc_on_response(cl, Head(msgs)), Tail(msgs))

\* connection.process_data_events(time_limit=5), called once: it returns as
\* soon as the messages that have arrived are dispatched, and with nothing
\* arrived it returns when the five seconds are over.  Then the connection
\* is closed, which deletes the exclusive reply queue, and an empty response
\* is raised as TimeoutError.
RpcCheckInventoryEnd(c) ==
    LET arrived == queue[ReplyQueue(c)]
        cl == Dispatch(client[c], arrived)
    IN /\ client[c].pc = "waiting"
       /\ client' = [client EXCEPT ![c] =
              [cl EXCEPT !.pc = "idle",
                         !.returned = Append(@,
                            [call |-> cl.calls, correlation_id |-> cl.correlation_id,
                             from |-> cl.from, response |-> cl.response,
                             outcome |-> IF cl.response = NoResponse THEN "TimeoutError"
                                         ELSE "returned",
                             elapsed |-> (arrived = <<>>)])]]
       /\ queue' = [queue EXCEPT ![ReplyQueue(c)] = <<>>]
       /\ UNCHANGED <<topology, setup, payload, producer, unacked, running, nextId, nextTag, nPub, nFaults, pubLog, dlog>>

\* Another client publishes to the waiting call's reply queue, through the
\* default exchange, a message with a correlation id of its own.
ForeignReply ==
    \E c \in Clients :
        /\ client[c].pc = "waiting"
        /\ client[c].calls + nPub < MaxRequests
        /\ nPub' = nPub + 1
        /\ SetBroker(BasicPublish(Broker, DEFAULT_EXCHANGE, StrKey(ReplyQueue(c)),
                                  [product_id |-> "PROD-X", in_stock |-> TRUE, quantity |-> 42],
                                  Properties("transient", None, "x-1", None)))
        /\ UNCHANGED <<topology, setup, payload, producer, unacked, running, nextTag, nFaults, dlog, client>>

NextRpcPy ==
    \/ \E c \in Clients : RpcCheckInventoryStart(c)
    \/ \E c \in Clients : RpcCheckInventoryEnd(c)
    \/ ForeignReply
    \/ ForeignRequest
    \/ \E s \in Servers : Deliver(s)
    \/ RpcServerCallback
    \/ StopServer
    \/ StartServer

SpecRpcPy == InitRPC /\ [][NextRpcPy]_vars

\* C25: a call of check_inventory ends only with a response of its own
\* correlation id, which it returns, or with TimeoutError once the time
\* limit is over; a message with another correlation id that arrives first
\* ends the call neither way.
C25_WaitEnds ==
    \A c \in Clients : \A n \in 1..Len(client[c].returned) :
        LET r == client[c].returned[n] IN
        /\ r.outcome = "returned" => r.from = r.correlation_id
        /\ r.outcome = "TimeoutError" => r.elapsed

\* For the class InventoryRPCClient: a call that has passed over a message
\* with another correlation id is still waiting or returned its own response.
ClassWaitEnds ==
    \A c \in Clients :
        /\ client[c].pc = "idle" => Len(client[c].returned) = client[c].calls
        /\ \A n \in 1..Len(client[c].returned) :
              client[c].returned[n].from = Uuid(client[c].returned[n].call)

\* ------------------------------------------------ dependency-closed setup
\* What a declaration refers to is in the topology: the queue and the
\* exchange of a queue_bind, the dead-letter exchange of a queue_declare.
Declared(t, d) ==
    CASE d.op = "queue_bind" ->
           /\ \E q \in t.queues : q.name = d.name
           /\ \E e \in t.exchanges : e.name = d.exchange
      [] d.op = "queue_declare" ->
           d.dlx = NoArg \/ \E e \in t.exchanges : e.name = d.dlx
      [] OTHER -> TRUE

\* Every queue's dead-letter exchange and every binding's queue and
\* exchange are in the topology.
DependencyClosed(t) ==
    /\ \A q \in t.queues : q.dlx # NoArg => \E e \in t.exchanges : e.name = q.dlx
    /\ \A b \in t.bindings :
          /\ \E q \in t.queues : q.name = b.queue
          /\ \E e \in t.exchanges : e.name = b.exchange

\* C26: at every step of setup_infrastructure the topology is
\* dependency-closed, and the call a run is about to make refers only to
\* what is declared already: orders.dlx before the queues that name it, the
\* queue and the exchange before their queue_bind; no call is refused with
\* NOT_FOUND.
C26_DependencyClosed ==
    /\ DependencyClosed(topology)
    /\ \A p \in SetupProcesses :
          /\ setup[p].err # "NOT_FOUND"
          /\ setup[p].at > 0 => Declared(topology, SetupSteps[setup[p].at])

\* In the middle of a run: the order queues that name orders.dlx are
\* declared, one of them is bound, and the next call is a queue_bind.
C26_Witness ==
    \E p \in SetupProcesses :
        /\ setup[p].at = 9
        /\ SetupSteps[9].op = "queue_bind"
        /\ setup[OtherProcess(p)].started = 0
        /\ \E q \in topology.queues : q.dlx = EXCHANGE_DLX
        /\ Cardinality(topology.bindings) = 2

\* ------------------------------------------------------ one order worker
\* One order worker, w1, serves the standard queue alone.
InitOneWorker == InitBroker /\ running = [c \in Consumers |-> c = "w1"]

NextOneWorker ==
    \/ DemoProduce
    \/ ForeignOrder
    \/ Deliver("w1")
    \/ WorkerCallback("w1")

SpecOneWorker == InitOneWorker /\ [][NextOneWorker]_vars

\* The messages that were enqueued on queue q, by identity; identities grow
\* in the order of publishing.
EnqueuedOn(q) ==
    {pubLog[k].id : k \in {n \in 1..Len(pubLog) : q \in Route(pubLog[n].exchange, pubLog[n].key)}}

\* Message i was acked or nacked in a delivery made before delivery tag.
ResolvedBefore(i, tag) ==
    \E a \in WorkerDeliveries :
        /\ a.id = i
        /\ a.tag < tag
        /\ a.done
        /\ Calls(a, "basic_ack") + Calls(a, "basic_nack") = 1

\* C27: with one worker on a queue, every message enqueued on that queue
\* before a delivered message was acked or nacked before that delivery was
\* made; the worker never holds two deliveries.
C27_OneAtATimeInOrder ==
    /\ \A b \in WorkerDeliveries :
          \A i \in EnqueuedOn(b.queue) : i < b.id => ResolvedBefore(i, b.tag)
    /\ \A w \in Workers : Len(unacked[w]) <= 1

\* Two messages were enqueued on the standard queue; the first was nacked,
\* then the second was delivered and acked.
C27_Witness ==
    \E a, b \in WorkerDeliveries :
        /\ a.queue = b.queue
        /\ a.id < b.id
        /\ Calls(a, "basic_nack") = 1
        /\ Calls(b, "basic_ack") = 1

\* --------------------------------------------------------- broker restart
\* Whether queue q is declared durable.
Durable(q) == \E d \in topology.queues : d.name = q /\ d.durable

\* The unresolved deliveries made from queue q, on any channel.
InFlight(q) ==
    {d \in UNION {{unacked[c][n] : n \in 1..Len(unacked[c])} : c \in Consumers} : d.queue = q}

\* The messages of a set of deliveries, oldest delivery first.
RECURSIVE ByTag(_)
ByTag(ds) ==
    IF ds = {} THEN <<>>
    ELSE LET first == CHOOSE d \in ds : \A e \in ds : d.tag <= e.tag
         IN <<first.msg>> \o ByTag(ds \ {first})

\* The broker is restarted.  Every connection is lost, so no consumer runs
\* and the unresolved deliveries go back to the head of their queues; then
\* the durable queues come back with their persistent messages, and the
\* other queues, their bindings and all other messages are gone.
BrokerRestart ==
    /\ queue' = [q \in QueueNames |->
                    IF Durable(q)
                    THEN SelectSeq(ByTag(InFlight(q)) \o queue[q],
                                   LAMBDA m : m.props.delivery_mode = "persistent")
                    ELSE <<>>]
    /\ unacked' = [c \in Consumers |-> <<>>]
    /\ running' = [c \in Consumers |-> FALSE]
    /\ topology' = [topology EXCEPT
                        !.queues = {d \in @ : d.durable},
                        !.bindings = {b \in @ : Durable(b.queue)}]
    /\ UNCHANGED <<setup, payload, producer, nextId, nextTag, nPub, nFaults, pubLog, dlog, client>>

\* A request is published to the RPC request queue while it is declared.
RpcRequest ==
    /\ \E d \in topology.queues : d.name = QUEUE_INVENTORY_RPC
    /\ ForeignRequest

\* The producer, one order worker, requests to the RPC server, and restarts.
NextRestart ==
    \/ DemoProduce
    \/ Deliver("w1")
    \/ WorkerCallback("w1")
    \/ RpcRequest
    \/ BrokerRestart

SpecRestart == InitOneWorker /\ [][NextRestart]_vars

\* The orders publish_order has published, by identity.
PublishedOrders ==
    {pubLog[k].id : k \in {n \in 1..Len(pubLog) : pubLog[n].by = "publish_order"}}

\* Message i is ready on queue q.
OnQueue(qs, q, i) == \E n \in 1..Len(qs[q]) : qs[q][n].id = i

\* C28: an order published by publish_order that waits on a queue (an order
\* queue or orders.failed) or is in flight from it when the broker is
\* restarted is on that queue after the restart.
C28_OrdersSurviveRestart ==
    [][BrokerRestart =>
         \A i \in PublishedOrders : \A q \in QueueNames :
             (OnQueue(queue, q, i) \/ \E d \in InFlight(q) : d.msg.id = i)
                 => OnQueue(queue', q, i)]_vars

\* After a restart: an order that was in flight is back on orders.standard,
\* and the request that was on the RPC request queue is gone with its queue.
C28_Witness ==
    /\ ~\E d \in topology.queues : d.name = QUEUE_INVENTORY_RPC
    /\ \E k \in 1..Len(pubLog) : pubLog[k].key = StrKey(QUEUE_INVENTORY_RPC)
    /\ queue[QUEUE_INVENTORY_RPC] = <<>>
    /\ \E dl \in WorkerDeliveries :
          /\ ~dl.done
          /\ dl.id \in PublishedOrders
          /\ OnQueue(queue, QUEUE_STANDARD_ORDERS, dl.id)

\* ------------------------------------------------- conservation of orders
\* The producer and the two order workers, either of which may be
\* interrupted inside its callback, which closes its connection.
NextConserve ==
    \/ DemoProduce
    \/ \E w \in Workers : Deliver(w)
    \/ \E w \in Workers : WorkerCallback(w)
    \/ \E w \in Workers : WorkerInterrupt(w)

SpecConserve == Init /\ [][NextConserve]_vars

\* The places message i is in: a position on a queue, an unresolved delivery
\* at a worker, or a delivery a worker acknowledged, which removed it.
Ready(i) ==
    UNION {{<<q, n>> : n \in {m \in 1..Len(queue[q]) : queue[q][m].id = i}} : q \in QueueNames}

InFlightAt(i) ==
    UNION {{<<w, n>> : n \in {m \in 1..Len(unacked[w]) : unacked[w][m].msg.id = i}} :
             w \in Workers}

AckedDeliveries(i) ==
    {dl \in WorkerDeliveries : dl.id = i /\ dl.done /\ Calls(dl, "basic_ack") = 1}

Places(i) ==
    Cardinality(Ready(i)) + Cardinality(InFlightAt(i)) + Cardinality(AckedDeliveries(i))

\* The order queue of a published order.
OrderQueueOf(p) == get_queue_for_order_type(OrderFromJson(p.body).order_type)

\* C29: every order published by publish_order is in exactly one place:
\* ready on the order queue of its type, unresolved at one worker,
\* acknowledged and removed, or ready on orders.failed; it is on no other
\* queue, never nowhere and never in two places.
C29_Conservation ==
    \A p \in Published : p.by = "publish_order" =>
        /\ Places(p.id) = 1
        /\ \A q \in QueueNames \ {OrderQueueOf(p), QUEUE_DLQ} : Copies(q, p.id) = 0

\* An order whose first delivery was interrupted in w1's callback went back
\* to its queue and was acknowledged by w2 in a second delivery.
C29_Witness ==
    \E a, b \in WorkerDeliveries :
        /\ a.id = b.id
        /\ a.tag < b.tag
        /\ a.exc = "KeyboardInterrupt"
        /\ Calls(b, "basic_ack") = 1
        /\ Places(a.id) = 1

\* ---------------------------------------------------- liveness of dispatch
\* A worker's callback can run: its loop runs and its channel holds an
\* unresolved delivery.  This is ENABLED WorkerCallback(w): the callback has
\* a run in which no publish raises, whatever the delivery.
CallbackPending(w) == running[w] /\ unacked[w] # <<>>

\* WF_vars(WorkerCallback(w)), with its ENABLED written out.
FairCallback(w) == []<>(~CallbackPending(w)) \/ []<><<WorkerCallback(w)>>_vars

\* The order worker keeps running: the broker keeps delivering to it while
\* its channel is below its prefetch count, and start_consuming keeps
\* calling the callback, which returns.
FairDispatch == WF_vars(Deliver("w1")) /\ FairCallback("w1")

SpecDispatchFair == InitOneWorker /\ [][NextOneWorker]_vars /\ FairDispatch

\* The queues an order worker consumes.
ConsumedQueues == {ConsumerQueue(w) : w \in {v \in Workers : running[v]}}

\* Message i is an order of publish_order that went to a consumed queue.
OrderToWorkers(i) ==
    \E p \in Published :
        /\ p.id = i
        /\ p.by = "publish_order"
        /\ Route(p.exchange, p.key) \cap ConsumedQueues # {}

\* Message i was acknowledged or is on the dead-letter queue.
Settled(i) == AckedDeliveries(i) # {} \/ Copies(QUEUE_DLQ, i) = 1

Broadcast(dl, e) ==
    \E n \in 1..Len(dl.ops) : dl.ops[n] = [op |-> "publish_event", arg |-> e]

\* The processing of the order (the sleep and the failure check) went through.
Processed(dl) == Calls(dl, "process") = 1

\* C31: a delivery to an order worker is acknowledged iff its processing
\* succeeded; an ORDER_COMPLETED event is broadcast only for a delivery that
\* is acknowledged, an ORDER_FAILED event only for one that is negatively
\* acknowledged, and no delivery has both events.
C31_ResolutionByProcessing ==
    \A dl \in WorkerDeliveries : dl.done =>
        /\ Calls(dl, "basic_ack") = 1 <=> Processed(dl)
        /\ Broadcast(dl, "ORDER_COMPLETED") => Calls(dl, "basic_ack") = 1
        /\ Broadcast(dl, "ORDER_FAILED") => Calls(dl, "basic_nack") = 1
        /\ ~(Broadcast(dl, "ORDER_COMPLETED") /\ Broadcast(dl, "ORDER_FAILED"))

\* While every publish of the callback succeeds, the resolution follows the
\* processing and a delivery has at most one of the two events.
ResolutionIfPublished ==
    \A dl \in WorkerDeliveries : (dl.done /\ ~PublishRaised(dl)) =>
        /\ Calls(dl, "basic_ack") = 1 <=> Processed(dl)
        /\ Broadcast(dl, "ORDER_COMPLETED") => Calls(dl, "basic_ack") = 1
        /\ Broadcast(dl, "ORDER_FAILED") => Calls(dl, "basic_nack") = 1
        /\ ~(Broadcast(dl, "ORDER_COMPLETED") /\ Broadcast(dl, "ORDER_FAILED"))

\* --------------------------------------------- per-order event ordering
\* The event types of order oid on queue q, in queue order.
EventsOn(q, oid) ==
    LET own == SelectSeq(queue[q], LAMBDA m : m.body.order_id = oid)
    IN [n \in 1..Len(own) |-> EventTypeOf(own[n].body.event_type)]

\* created, then processing, then one of completed and failed, and the
\* beginnings of these.
EventOrders ==
    {<<>>, <<"ORDER_CREATED">>, <<"ORDER_CREATED", "ORDER_PROCESSING">>,
     <<"ORDER_CREATED", "ORDER_PROCESSING", "ORDER_COMPLETED">>,
     <<"ORDER_CREATED", "ORDER_PROCESSING", "ORDER_FAILED">>}

\* The created event of the order published as message i was enqueued on q
\* before it.
CreatedBefore(q, i) ==
    \E n \in 1..Len(queue[q]) :
        /\ queue[q][n].id < i
        /\ queue[q][n].body.order_id = RequestOf([id |-> i]).body.order_id
        /\ queue[q][n].body.event_type = EventTypeValue("ORDER_CREATED")

\* The deliveries of order oid whose callback has run.
ResolvedDeliveries(oid) ==
    {dl \in WorkerDeliveries :
        dl.done /\ dl.id \in PublishedOrders /\ RequestOf(dl).body.order_id = oid}

EventOrderOn(q, oid) ==
    /\ EventsOn(q, oid) \in EventOrders
    /\ ResolvedDeliveries(oid) # {} => Len(EventsOn(q, oid)) = 3

\* C32: with demo_producer and the order workers running, on each fanout
\* subscriber queue the events of one order are order.created, then
\* order.processing, then exactly one of order.completed and order.failed,
\* and the created event of an order is enqueued before the order itself is.
C32_EventOrder ==
    /\ \A q \in {QUEUE_NOTIFICATIONS, QUEUE_ANALYTICS} : \A oid \in OrderIds :
           EventOrderOn(q, oid)
    /\ \A q \in {QUEUE_NOTIFICATIONS, QUEUE_ANALYTICS} : \A i \in PublishedOrders :
           CreatedBefore(q, i)

\* The orders none of whose deliveries had a publish raise keep the order of
\* their events.
EventOrderIfPublished ==
    /\ \A q \in {QUEUE_NOTIFICATIONS, QUEUE_ANALYTICS} : \A oid \in OrderIds :
           (\A dl \in WorkerDeliveries :
               (dl.id \in PublishedOrders /\ RequestOf(dl).body.order_id = oid)
                   => ~PublishRaised(dl))
           => EventOrderOn(q, oid)
    /\ \A q \in {QUEUE_NOTIFICATIONS, QUEUE_ANALYTICS} : \A i \in PublishedOrders :
           CreatedBefore(q, i)

\* --------------------------------------------- redelivery and completion
\* KeyboardInterrupt reaches the callback after the ORDER_COMPLETED event has
\* been published and before basic_ack: it is no Exception, leaves the
\* callback, and the unacknowledged order goes back to its queue.
WorkerTryInterrupted(h, w, d) ==
    LET order == OrderFromJson(d.msg.body)
        processing == OrderEvent("ORDER_PROCESSING", order.order_id,
                                 <<"Processing by worker", w>>, [worker_id |-> w])
        completed == OrderEvent("ORDER_COMPLETED", order.order_id,
                                <<"Completed by worker", w>>,
                                [worker_id |-> w, processing_time |-> ProcessingTime])
        h1 == CallOrderFromJson(h, d.msg.body)
        h2 == CallPublishEvent(h1, processing, FALSE)
        h3 == CallPublishLog(h2, processing, OrderTypeValue(order.order_type), FALSE)
        h4 == Did(h3, "process", "")
        h5 == CallPublishEvent(h4, completed, FALSE)
    IN Raise(h5, "KeyboardInterrupt", "interrupt")

WorkerInterruptCompleted(w) ==
    /\ running[w]
    /\ unacked[w] # <<>>
    /\ ~OrderFromJsonRaises(Head(unacked[w]).msg.body)
    /\ Handled(w, Head(unacked[w]), WorkerTryInterrupted(Handler(w), w, Head(unacked[w])))

NextRedeliver ==
    \/ DemoProduce
    \/ \E w \in Workers : Deliver(w)
    \/ \E w \in Workers : WorkerCallback(w)
    \/ \E w \in Workers : WorkerInterrupt(w)
    \/ \E w \in Workers : WorkerInterruptCompleted(w)

SpecRedeliver == Init /\ [][NextRedeliver]_vars

\* The deliveries of order message i.
DeliveriesOf(i) == {dl \in WorkerDeliveries : dl.id = i}

\* Order message i was delivered again after a worker was interrupted with it.
Redelivered(i) ==
    /\ Cardinality(DeliveriesOf(i)) > 1
    /\ \E dl \in DeliveriesOf(i) : dl.exc = "KeyboardInterrupt"

\* C33: when a worker is interrupted with an order in flight and the broker
\* redelivers the order, across all deliveries of the order at most one
\* ORDER_COMPLETED event is broadcast and at most one basic_ack is issued.
C33_CompletedOnce ==
    \A i \in PublishedOrders :
        /\ Cardinality({dl \in DeliveriesOf(i) : Broadcast(dl, "ORDER_COMPLETED")}) <= 1
        /\ Cardinality({dl \in DeliveriesOf(i) : Calls(dl, "basic_ack") = 1}) <= 1

\* The part on the acknowledgement.
AckedOnce ==
    \A i \in PublishedOrders :
        Cardinality({dl \in DeliveriesOf(i) : Calls(dl, "basic_ack") = 1}) <= 1

\* --------------------------------------------- unparseable orders
\* The deliveries of messages that Order.from_json does not accept, whose
\* callback has run.
Unparseable ==
    {dl \in WorkerDeliveries : dl.done /\ OrderFromJsonRaises(RequestOf(dl).body)}

\* C34: a delivery whose body is no Order (invalid JSON, missing field,
\* unknown order_type) is negatively acknowledged once with requeue=False and
\* no ack, its message is on the dead-letter queue and not back on its own,
\* the callback has published no event and no log for it, and no exception
\* has left the callback: the worker is still consuming.
C34_UnparseableDeadLettered ==
    \A dl \in Unparseable :
        /\ Calls(dl, "basic_nack") = 1
        /\ \E n \in 1..Len(dl.ops) :
               dl.ops[n] = [op |-> "basic_nack", arg |-> "requeue=False"]
        /\ Calls(dl, "basic_ack") = 0
        /\ OnQueue(queue, QUEUE_DLQ, dl.id)
        /\ ~OnQueue(queue, dl.queue, dl.id)
        /\ Held(dl.consumer, dl.id) = 0
        /\ dl.pubs = <<>>
        /\ Calls(dl, "publish_event") = 0 /\ Calls(dl, "publish_log") = 0
        /\ dl.exc = NoExc
        /\ running[dl.consumer]

\* A worker has dead-lettered an unparseable message and then resolved the
\* next order delivered to it.
C34_Witness ==
    \E dl \in Unparseable : \E nx \in WorkerDeliveries :
        /\ nx.consumer = dl.consumer
        /\ nx.tag > dl.tag
        /\ nx.done
        /\ Calls(nx, "basic_ack") = 1
        /\ OnQueue(queue, QUEUE_DLQ, dl.id)

\* --------------------------------------------- topology completeness
\* What publish_order, publish_event and publish_log have published.
ProducerPublished ==
    {p \in Published : p.by \in {"publish_order", "publish_event", "publish_log"}}

\* The queues the order workers, the subscribers and the RPC server consume.
ConsumedByRepo == {ConsumerQueue(c) : c \in Consumers} \cup OrderQueues

\* C35: on the topology setup_infrastructure leaves, every exchange that
\* publish_order, publish_event and publish_log publish to and every queue
\* the order workers, the subscribers and the RPC server consume from is
\* declared, and every message these publishers publish matches a binding
\* and is enqueued on at least one queue: none is dropped as unroutable.
C35_TopologyComplete ==
    /\ \A q \in ConsumedByRepo : \E d \in topology.queues : d.name = q
    /\ \A p \in ProducerPublished :
           /\ \E x \in topology.exchanges : x.name = p.exchange
           /\ \E bd \in topology.bindings :
                  /\ bd.exchange = p.exchange
                  /\ BindingMatches(ExchangeType(p.exchange), bd.key, p.key)
           /\ Route(p.exchange, p.key) # {}
           /\ \E q \in DeclaredQueues : Copies(q, p.id) >= 1

\* A log whose key has three words is on the log queue and a message of
\* another of the publishers is on a queue as well.
C35_Witness ==
    \E p \in ProducerPublished : \E o \in ProducerPublished :
        /\ p.by = "publish_log"
        /\ Copies(QUEUE_LOGS, p.id) = 1
        /\ o.by # "publish_log"
        /\ \E q \in DeclaredQueues : Copies(q, o.id) >= 1

\* --------------------------------------------- concurrent RPC clients
\* check_inventory of one of two clients, each client object with its own
\* exclusive reply queue and its own correlation ids.
ConcurrentCall(c) ==
    /\ client["c1"].calls + client["c2"].calls < MaxRequests
    /\ CheckInventoryStart(c)

NextTwoClients ==
    \/ \E c \in ConcurrentClients : ConcurrentCall(c)
    \/ \E c \in ConcurrentClients : OnResponse(c)
    \/ \E c \in ConcurrentClients : CheckInventoryReturn(c)
    \/ \E s \in Servers : Deliver(s)
    \/ ServerCallback

SpecTwoClients == InitRPC /\ [][NextTwoClients]_vars

\* The correlation ids of the calls client c has made.
OwnUuids(c) == {ClientUuid(c, n) : n \in 1..client[c].calls}

\* The runs of the server's callback.
ServerRuns == {dl \in Deliveries : dl.consumer \in Servers /\ dl.done}

\* C36: with two clients calling concurrently, each on its own exclusive
\* reply queue, the server publishes the response to a request only to the
\* queue the request names in reply_to, with the request's correlation id;
\* a client's reply queue holds, and a client takes, passes over or returns,
\* only responses to its own requests.
C36_ReplyIsolation ==
    /\ \A dl \in ServerRuns : \A n \in 1..Len(dl.pubs) :
           /\ dl.pubs[n].exchange = DEFAULT_EXCHANGE
           /\ dl.pubs[n].key = StrKey(RequestOf(dl).props.reply_to)
           /\ Route(dl.pubs[n].exchange, dl.pubs[n].key) = {RequestOf(dl).props.reply_to}
           /\ dl.pubs[n].props.correlation_id = RequestOf(dl).props.correlation_id
    /\ \A c \in ConcurrentClients :
           /\ \A n \in 1..Len(queue[ReplyQueue(c)]) :
                  queue[ReplyQueue(c)][n].props.correlation_id \in OwnUuids(c)
           /\ \A n \in 1..Len(client[c].ignored) :
                  client[c].ignored[n].correlation_id \in OwnUuids(c)
           /\ client[c].response # NoResponse => client[c].from \in OwnUuids(c)
           /\ \A n \in 1..Len(client[c].returned) :
                  /\ client[c].returned[n].from = ClientUuid(c, client[c].returned[n].call)
                  /\ \E dl \in ServerRuns : \E k \in 1..Len(dl.pubs) :
                         /\ RequestOf(dl).props.reply_to = ReplyQueue(c)
                         /\ RequestOf(dl).props.correlation_id = client[c].returned[n].from
                         /\ dl.pubs[k].body = client[c].returned[n].response

\* Both clients had their requests on the way before the server answered
\* either, and each has returned a response.
C36_Witness ==
    /\ \A c \in ConcurrentClients : Len(client[c].returned) = 1
    /\ \E d1 \in ServerRuns : \E d2 \in ServerRuns :
           /\ RequestOf(d1).props.reply_to = ReplyQueue("c1")
           /\ RequestOf(d2).props.reply_to = ReplyQueue("c2")
           /\ d1.pubs # <<>> /\ d2.pubs # <<>>
           /\ d1.id < d1.pubs[1].id /\ d2.id < d1.pubs[1].id
           /\ d1.id < d2.pubs[1].id /\ d2.id < d2.pubs[1].id

====
